---- MODULE Spec2Model ----
(***************************************************************************)
(* serde_dyn: the type-erasure bridges between the dyn-compatible facades  *)
(* (ser.rs, de.rs) and a concrete generic serde codec.                     *)
(*                                                                         *)
(* Spec    one InplaceSerializer driven by an arbitrary sequence of facade *)
(*         calls, over a wrapped codec that may fail at any call.          *)
(***************************************************************************)
EXTENDS Integers, Sequences, FiniteSets, TLC

\* ------------------------------------------------------------------ bounds
\* Most element-level calls the wrapped codec accepts in one run of Spec.
MaxElems == 2
\* Largest length handed to an open call.
MaxLen == 1
\* Most names in the list of expected fields of a report.
MaxNames == 3

\* Option::None as the length of dyn_serialize_seq / dyn_serialize_map.
NoLen == -1
\* The concrete errors (S::Error values) the wrapped codec can report.
Errors == {"e1", "e2"}
\* The arguments of scalar and element calls.
Values == {0, 1}

\* ------------------------------------------------- ser.rs: InplaceSerializer
\* enum InplaceSerializer<S>: one tag with its payload.
InplaceSerializer(tag, val) == [tag |-> tag, val |-> val]

\* #[derive(Default)] with #[default] None: what mem::take leaves behind.
Default == InplaceSerializer("None", "-")

\* <dyn Serializer>::new
new(serializer) == InplaceSerializer("Serializer", serializer)

\* The seven CompositeOpen tags.
CompositeTags ==
    {"SerializeSeq", "SerializeTuple", "SerializeTupleStruct", "SerializeTupleVariant",
     "SerializeMap", "SerializeStruct", "SerializeStructVariant"}

\* enum SerializerError: the Status values.
SerializerError == {"Error", "Serializer"} \cup CompositeTags

\* One row per method of the impls for InplaceSerializer: the tag its
\* `if let` requires, the codec method it calls, the constructor it hands to
\* write_with and the Status of its else branch.

TerminalRows ==
    { [trait |-> "Serializer", name |-> "dyn_serialize_bool", need |-> "Serializer", codec |-> "serialize_bool", f |-> "Ok", err |-> "Serializer"],
      [trait |-> "Serializer", name |-> "dyn_serialize_i8", need |-> "Serializer", codec |-> "serialize_i8", f |-> "Ok", err |-> "Serializer"],
      [trait |-> "Serializer", name |-> "dyn_serialize_i16", need |-> "Serializer", codec |-> "serialize_i16", f |-> "Ok", err |-> "Serializer"],
      [trait |-> "Serializer", name |-> "dyn_serialize_i32", need |-> "Serializer", codec |-> "serialize_i32", f |-> "Ok", err |-> "Serializer"],
      [trait |-> "Serializer", name |-> "dyn_serialize_i64", need |-> "Serializer", codec |-> "serialize_i64", f |-> "Ok", err |-> "Serializer"],
      [trait |-> "Serializer", name |-> "dyn_serialize_i128", need |-> "Serializer", codec |-> "serialize_i128", f |-> "Ok", err |-> "Serializer"],
      [trait |-> "Serializer", name |-> "dyn_serialize_u8", need |-> "Serializer", codec |-> "serialize_u8", f |-> "Ok", err |-> "Serializer"],
      [trait |-> "Serializer", name |-> "dyn_serialize_u16", need |-> "Serializer", codec |-> "serialize_u16", f |-> "Ok", err |-> "Serializer"],
      [trait |-> "Serializer", name |-> "dyn_serialize_u32", need |-> "Serializer", codec |-> "serialize_u32", f |-> "Ok", err |-> "Serializer"],
      [trait |-> "Serializer", name |-> "dyn_serialize_u64", need |-> "Serializer", codec |-> "serialize_u64", f |-> "Ok", err |-> "Serializer"],
      [trait |-> "Serializer", name |-> "dyn_serialize_u128", need |-> "Serializer", codec |-> "serialize_u128", f |-> "Ok", err |-> "Serializer"],
      [trait |-> "Serializer", name |-> "dyn_serialize_f32", need |-> "Serializer", codec |-> "serialize_f32", f |-> "Ok", err |-> "Serializer"],
      [trait |-> "Serializer", name |-> "dyn_serialize_f64", need |-> "Serializer", codec |-> "serialize_f64", f |-> "Ok", err |-> "Serializer"],
      [trait |-> "Serializer", name |-> "dyn_serialize_char", need |-> "Serializer", codec |-> "serialize_char", f |-> "Ok", err |-> "Serializer"],
      [trait |-> "Serializer", name |-> "dyn_serialize_str", need |-> "Serializer", codec |-> "serialize_str", f |-> "Ok", err |-> "Serializer"],
      [trait |-> "Serializer", name |-> "dyn_serialize_bytes", need |-> "Serializer", codec |-> "serialize_bytes", f |-> "Ok", err |-> "Serializer"],
      [trait |-> "Serializer", name |-> "dyn_serialize_none", need |-> "Serializer", codec |-> "serialize_none", f |-> "Ok", err |-> "Serializer"],
      [trait |-> "Serializer", name |-> "dyn_serialize_some", need |-> "Serializer", codec |-> "serialize_some", f |-> "Ok", err |-> "Serializer"],
      [trait |-> "Serializer", name |-> "dyn_serialize_unit", need |-> "Serializer", codec |-> "serialize_unit", f |-> "Ok", err |-> "Serializer"],
      [trait |-> "Serializer", name |-> "dyn_serialize_unit_struct", need |-> "Serializer", codec |-> "serialize_unit_struct", f |-> "Ok", err |-> "Serializer"],
      [trait |-> "Serializer", name |-> "dyn_serialize_unit_variant", need |-> "Serializer", codec |-> "serialize_unit_variant", f |-> "Ok", err |-> "Serializer"],
      [trait |-> "Serializer", name |-> "dyn_serialize_newtype_struct", need |-> "Serializer", codec |-> "serialize_newtype_struct", f |-> "Ok", err |-> "Serializer"],
      [trait |-> "Serializer", name |-> "dyn_serialize_newtype_variant", need |-> "Serializer", codec |-> "serialize_newtype_variant", f |-> "Ok", err |-> "Serializer"],
      [trait |-> "Serializer", name |-> "dyn_collect_str", need |-> "Serializer", codec |-> "collect_str", f |-> "Ok", err |-> "Serializer"] }
OpenRows ==
    { [trait |-> "Serializer", name |-> "dyn_serialize_seq", need |-> "Serializer", codec |-> "serialize_seq", f |-> "SerializeSeq", err |-> "Serializer"],
      [trait |-> "Serializer", name |-> "dyn_serialize_tuple", need |-> "Serializer", codec |-> "serialize_tuple", f |-> "SerializeTuple", err |-> "Serializer"],
      [trait |-> "Serializer", name |-> "dyn_serialize_tuple_struct", need |-> "Serializer", codec |-> "serialize_tuple_struct", f |-> "SerializeTupleStruct", err |-> "Serializer"],
      [trait |-> "Serializer", name |-> "dyn_serialize_tuple_variant", need |-> "Serializer", codec |-> "serialize_tuple_variant", f |-> "SerializeTupleVariant", err |-> "Serializer"],
      [trait |-> "Serializer", name |-> "dyn_serialize_map", need |-> "Serializer", codec |-> "serialize_map", f |-> "SerializeMap", err |-> "Serializer"],
      [trait |-> "Serializer", name |-> "dyn_serialize_struct", need |-> "Serializer", codec |-> "serialize_struct", f |-> "SerializeStruct", err |-> "Serializer"],
      [trait |-> "Serializer", name |-> "dyn_serialize_struct_variant", need |-> "Serializer", codec |-> "serialize_struct_variant", f |-> "SerializeStructVariant", err |-> "Serializer"] }
ElementRows ==
    { [trait |-> "SerializeSeq", name |-> "dyn_serialize_element", need |-> "SerializeSeq", codec |-> "serialize_element", f |-> "-", err |-> "SerializeSeq"],
      [trait |-> "SerializeTuple", name |-> "dyn_serialize_element", need |-> "SerializeTuple", codec |-> "serialize_element", f |-> "-", err |-> "SerializeTuple"],
      [trait |-> "SerializeTupleStruct", name |-> "dyn_serialize_field", need |-> "SerializeTupleStruct", codec |-> "serialize_field", f |-> "-", err |-> "SerializeTupleStruct"],
      [trait |-> "SerializeTupleVariant", name |-> "dyn_serialize_field", need |-> "SerializeTupleVariant", codec |-> "serialize_field", f |-> "-", err |-> "SerializeTupleVariant"],
      [trait |-> "SerializeMap", name |-> "dyn_serialize_key", need |-> "SerializeMap", codec |-> "serialize_key", f |-> "-", err |-> "SerializeMap"],
      [trait |-> "SerializeMap", name |-> "dyn_serialize_value", need |-> "SerializeMap", codec |-> "serialize_value", f |-> "-", err |-> "SerializeMap"],
      [trait |-> "SerializeMap", name |-> "dyn_serialize_entry", need |-> "SerializeMap", codec |-> "serialize_entry", f |-> "-", err |-> "SerializeMap"],
      [trait |-> "SerializeStruct", name |-> "dyn_serialize_field", need |-> "SerializeStruct", codec |-> "serialize_field", f |-> "-", err |-> "SerializeStruct"],
      [trait |-> "SerializeStruct", name |-> "dyn_skip_field", need |-> "SerializeStruct", codec |-> "skip_field", f |-> "-", err |-> "SerializeStruct"],
      [trait |-> "SerializeStructVariant", name |-> "dyn_serialize_field", need |-> "SerializeStructVariant", codec |-> "serialize_field", f |-> "-", err |-> "SerializeStructVariant"],
      [trait |-> "SerializeStructVariant", name |-> "dyn_skip_field", need |-> "SerializeStructVariant", codec |-> "skip_field", f |-> "-", err |-> "SerializeStructVariant"] }
EndRows ==
    { [trait |-> "SerializeSeq", name |-> "dyn_end", need |-> "SerializeSeq", codec |-> "end", f |-> "Ok", err |-> "SerializeSeq"],
      [trait |-> "SerializeTuple", name |-> "dyn_end", need |-> "SerializeTuple", codec |-> "end", f |-> "Ok", err |-> "SerializeTuple"],
      [trait |-> "SerializeTupleStruct", name |-> "dyn_end", need |-> "SerializeTupleStruct", codec |-> "end", f |-> "Ok", err |-> "SerializeTupleStruct"],
      [trait |-> "SerializeTupleVariant", name |-> "dyn_end", need |-> "SerializeTupleVariant", codec |-> "end", f |-> "Ok", err |-> "SerializeTupleVariant"],
      [trait |-> "SerializeMap", name |-> "dyn_end", need |-> "SerializeMap", codec |-> "end", f |-> "Ok", err |-> "SerializeMap"],
      [trait |-> "SerializeStruct", name |-> "dyn_end", need |-> "SerializeStruct", codec |-> "end", f |-> "Ok", err |-> "SerializeStruct"],
      [trait |-> "SerializeStructVariant", name |-> "dyn_end", need |-> "SerializeStructVariant", codec |-> "end", f |-> "Ok", err |-> "SerializeStructVariant"] }

SerializerRows == TerminalRows \cup OpenRows
CompositeRows == ElementRows \cup EndRows
Rows == SerializerRows \cup CompositeRows

\* A result of the wrapped codec: Result<T, S::Error>.
CodecOk(val) == [ok |-> TRUE, val |-> val]
CodecErr(error) == [ok |-> FALSE, val |-> error]

\* What a codec method returns on success: S::Ok for a terminal call and for
\* end, the composite object for an open call, () for an element call.
OkOf(row) ==
    IF row \in OpenRows THEN "composite"
    ELSE IF row \in ElementRows THEN "unit"
    ELSE "ok"

Results(row) == {CodecOk(OkOf(row))} \cup {CodecErr(e) : e \in Errors}

\* The results to consider for a call on `self`: the codec answers only when
\* it is called, so a call that cannot reach it needs one case, not three.
Answers(self, row) ==
    IF self.tag = row.need THEN Results(row) ELSE {CodecOk(OkOf(row))}

\* The call `ser.m(v)` as the wrapped codec receives it.
codec_call_lost(row, v) == [op |-> row.codec, arg |-> 0]
codec_call(row, v) == [op |-> row.codec, arg |-> v]

\* InplaceSerializer::write_error
write_error(self, error) ==
    [self |-> InplaceSerializer("Error", error), ret |-> "Error"]

\* InplaceSerializer::write_with
write_with_drop(self, f, r) ==
    IF r.ok THEN [self |-> InplaceSerializer(f, r.val), ret |-> "Ok"]
    ELSE [self |-> self, ret |-> "Error"]
write_with(self, f, r) ==
    IF r.ok THEN [self |-> InplaceSerializer(f, r.val), ret |-> "Ok"]
    ELSE write_error(self, r.val)

\* impl Serializer for InplaceSerializer, every method but the query:
\*   if let Serializer(ser) = mem::take(self) { self.write_with(f, ser.m(..)) }
\*   else { Err(SerializerError::Serializer) }
\* r is what the codec method returns if it is called.
dyn_serialize_reuse(self, row, r) ==
    IF self.tag \in {row.need, "Ok"}
    THEN [invoked |-> TRUE] @@ write_with(Default, row.f, r)
    ELSE [self |-> Default, ret |-> row.err, invoked |-> FALSE]
dyn_serialize(self, row, r) ==
    IF self.tag = row.need
    THEN [invoked |-> TRUE] @@ write_with(Default, row.f, r)
    ELSE [self |-> Default, ret |-> row.err, invoked |-> FALSE]

\* dyn_serialize_element / _field / _key / _value / _entry / dyn_skip_field:
\*   if let K(ser) = self { ser.m(..).map_err(|e| self.write_error(e)) }
\*   else { Err(SerializerError::K) }
dyn_serialize_element_take(self, row, r) ==
    IF self.tag = row.need
    THEN IF r.ok THEN [self |-> Default, ret |-> "Ok", invoked |-> TRUE]
         ELSE [invoked |-> TRUE] @@ write_error(self, r.val)
    ELSE [self |-> Default, ret |-> row.err, invoked |-> FALSE]
dyn_serialize_element(self, row, r) ==
    IF self.tag = row.need
    THEN IF r.ok THEN [self |-> self, ret |-> "Ok", invoked |-> TRUE]
         ELSE [invoked |-> TRUE] @@ write_error(self, r.val)
    ELSE [self |-> self, ret |-> row.err, invoked |-> FALSE]

\* dyn_end matching in place instead of taking: the ended composite stays in
\* the bridge and the outcome is not written.
dyn_end_in_place(self, row, r) ==
    IF self.tag = row.need
    THEN [self |-> self, ret |-> IF r.ok THEN "Ok" ELSE "Error", invoked |-> TRUE]
    ELSE [self |-> self, ret |-> row.err, invoked |-> FALSE]

\* dyn_end answering a wrong stage with the generic status.
dyn_end_generic(self, row, r) ==
    IF self.tag = row.need
    THEN [invoked |-> TRUE] @@ write_with(Default, row.f, r)
    ELSE [self |-> Default, ret |-> "Error", invoked |-> FALSE]

\* dyn_end of the seven composite impls:
\*   if let K(ser) = mem::take(self) { self.write_with(Ok, ser.end()) }
\*   else { Err(SerializerError::K) }
dyn_end(self, row, r) ==
    IF self.tag = row.need
    THEN [invoked |-> TRUE] @@ write_with(Default, row.f, r)
    ELSE [self |-> Default, ret |-> row.err, invoked |-> FALSE]

\* dyn_is_human_readable answering for a codec the bridge no longer holds.
dyn_is_human_readable_forward(self, h) == h

\* InplaceSerializer::dyn_is_human_readable; h is the codec's answer.
dyn_is_human_readable(self, h) ==
    IF self.tag = "Serializer" THEN h ELSE TRUE

\* ------------------------------------------------- consumer side (src/de.rs)
\* DeserializerError: the payload-free Status of the Consumer facades.
DeserializerError ==
    {"Error", "Deserializer", "DeserializeSeed", "Visitor",
     "SeqAccess", "MapAccess", "EnumAccess", "VariantAccess"}

\* The messages a concrete visitor or seed may fail with (E::custom).
Messages == {"m1"}

\* The values a concrete visitor or seed may produce.
Produced == {"v1"}

\* DeserializeError: DeserializerError(status) or Other(message), written as
\* Rust writes the variant.
DeserializeError(kind, val) == kind \o "(" \o val \o ")"

\* impl From<DeserializerError> for DeserializeError
from(error) == DeserializeError("DeserializerError", error)

\* impl serde::de::Error for DeserializeError (custom, with alloc)
custom(msg) == DeserializeError("Other", msg)

\* impl fmt::Display for DeserializerError
Display(error) ==
    CASE error = "Error" -> "an error occurred during the deserialization"
      [] error = "Deserializer" -> "the deserializer is not ready"
      [] error = "DeserializeSeed" -> "the deserialize-seed is not ready"
      [] error = "Visitor" -> "the visitor is not ready"
      [] error = "SeqAccess" -> "the sequence access is not ready"
      [] error = "MapAccess" -> "the map access is not ready"
      [] error = "EnumAccess" -> "the enum access is not ready"
      [] error = "VariantAccess" -> "the enum variant access is not ready"

\* The texts an Other can hold: a custom message, the Display text of a status
\* or of a codec error.
Texts == Messages \cup {Display(error) : error \in DeserializerError} \cup Errors

\* DeserializeError::into_de_error: E::custom of the Display text. A concrete
\* codec error made by E::custom is the text it was made from.
\*   match self { DeserializerError(error) => E::custom(error),
\*                Other(error) => E::custom(error) }
into_de_error(self) ==
    IF \E error \in DeserializerError : self = from(error)
    THEN Display(CHOOSE error \in DeserializerError : self = from(error))
    ELSE SubSeq(self, Len("Other(") + 1, Len(self) - 1)

\* Result<T, E>
Ok(val) == [ok |-> TRUE, val |-> val]
Err(error) == [ok |-> FALSE, val |-> error]

\* result.map_err(DeserializeError::into_de_error)
map_err_into_de_error(result) ==
    IF result.ok THEN result ELSE Err(into_de_error(result.val))

\* ------------------------------------------ error.rs: the Descriptive Error
\* enum ErrorKind, for the categories that carry names: the field or variant
\* name, the &'static [&'static str] of allowed names, or the message.
ErrorKind(kind, name, names, msg) == [kind |-> kind, name |-> name, names |-> names, msg |-> msg]
NoKind == ErrorKind("-", "", <<>>, "")

\* impl serde::de::Error for Error: the constructors keep the category.
Error_custom(msg) == ErrorKind("Other", "", <<>>, msg)
Error_unknown_variant(variant, expected) == ErrorKind("UnknownVariant", variant, expected, "")
Error_unknown_field_flat(field, expected) == ErrorKind("Other", field, <<>>, "unknown field")
Error_unknown_field(field, expected) == ErrorKind("UnknownField", field, expected, "")
Error_missing_field(field) == ErrorKind("MissingField", field, <<>>, "")
Error_duplicate_field(field) == ErrorKind("DuplicateField", field, <<>>, "")

\* struct OneOf of impl fmt::Display for ErrorKind. The grave accent of the
\* source is written ' here.
\*   [] => "", [x] => "'x'", [x, y] => "'x' or 'y'",
\*   [x, ys @ ..] => "one of 'x'" then ", 'y'" for y in ys
OneOf_ys_first(ys) == IF ys = <<>> THEN "" ELSE ", '" \o Head(ys) \o "'"
RECURSIVE OneOf_ys(_)
OneOf_ys(ys) == IF ys = <<>> THEN "" ELSE ", '" \o Head(ys) \o "'" \o OneOf_ys(Tail(ys))
OneOf_always(names) ==
    IF names = <<>> THEN "" ELSE "one of '" \o names[1] \o "'" \o OneOf_ys(Tail(names))
OneOf(names) ==
    CASE Len(names) = 0 -> ""
      [] Len(names) = 1 -> "'" \o names[1] \o "'"
      [] Len(names) = 2 -> "'" \o names[1] \o "' or '" \o names[2] \o "'"
      [] OTHER -> "one of '" \o names[1] \o "'" \o OneOf_ys(Tail(names))

\* impl fmt::Display for ErrorKind
ErrorKind_Display(self) ==
    CASE self.kind = "UnknownVariant" ->
           IF self.names = <<>>
           THEN "unknown variant '" \o self.name \o "', there are no variants"
           ELSE "unknown variant '" \o self.name \o "', expected " \o OneOf(self.names)
      [] self.kind = "UnknownField" ->
           IF self.names = <<>>
           THEN "unknown field '" \o self.name \o "', there are no fields"
           ELSE "unknown field '" \o self.name \o "', expected " \o OneOf(self.names)
      [] self.kind = "MissingField" -> "missing field '" \o self.name \o "'"
      [] self.kind = "DuplicateField" -> "duplicate field '" \o self.name \o "'"
      [] OTHER -> self.msg

\* The constructors of the concrete codec's error E, which keeps serde's
\* provided methods: E::custom of serde's text for the category. A codec
\* error is the text it renders.
\*   1 name: 'x'; 2 names: 'x' or 'y'; more: "one of " then the names
\*   separated by ", "
RECURSIVE E_names(_)
E_names(names) ==
    IF Len(names) = 1 THEN "'" \o names[1] \o "'"
    ELSE "'" \o names[1] \o "', " \o E_names(Tail(names))
E_custom(msg) == msg
E_unknown_variant(variant, expected) ==
    E_custom("unknown variant '" \o variant \o "', " \o
             (CASE Len(expected) = 0 -> "there are no variants"
                [] Len(expected) = 2 -> "expected '" \o expected[1] \o "' or '" \o expected[2] \o "'"
                [] Len(expected) = 1 -> "expected " \o E_names(expected)
                [] OTHER -> "expected one of " \o E_names(expected)))
E_unknown_field(field, expected) ==
    E_custom("unknown field '" \o field \o "', " \o
             (CASE Len(expected) = 0 -> "there are no fields"
                [] Len(expected) = 2 -> "expected '" \o expected[1] \o "' or '" \o expected[2] \o "'"
                [] Len(expected) = 1 -> "expected " \o E_names(expected)
                [] OTHER -> "expected one of " \o E_names(expected)))
E_missing_field(field) == E_custom("missing field '" \o field \o "'")
E_duplicate_field(field) == E_custom("duplicate field '" \o field \o "'")

\* Error::into_de_error: the constructor of E for the category.
Error_into_de_error(self) ==
    CASE self.kind = "UnknownVariant" -> E_unknown_variant(self.name, self.names)
      [] self.kind = "UnknownField" -> E_unknown_field(self.name, self.names)
      [] self.kind = "MissingField" -> E_missing_field(self.name)
      [] self.kind = "DuplicateField" -> E_duplicate_field(self.name)
      [] OTHER -> E_custom(self.msg)

\* impl serde::de::Error for DeserializeError defines custom alone, so its
\* unknown_field is serde's provided method: custom of serde's text.
DeserializeError_unknown_field(field, expected) == custom(E_unknown_field(field, expected))

\* impl fmt::Display for DeserializeError
\*   DeserializerError(error) => error.fmt(f), Other(error) => f.write_str(error)
DeserializeError_Display(self) ==
    IF \E error \in DeserializerError : self = from(error)
    THEN Display(CHOOSE error \in DeserializerError : self = from(error))
    ELSE SubSeq(self, Len("Other(") + 1, Len(self) - 1)

\* InplaceDeserializer as Deserializer: 31 methods, src/de.rs 1543-1856
HintRows ==
    { [trait |-> "Deserializer", name |-> "dyn_deserialize_any", need |-> "Deserializer", codec |-> "deserialize_any", err |-> "Deserializer"],
      [trait |-> "Deserializer", name |-> "dyn_deserialize_bool", need |-> "Deserializer", codec |-> "deserialize_bool", err |-> "Deserializer"],
      [trait |-> "Deserializer", name |-> "dyn_deserialize_i8", need |-> "Deserializer", codec |-> "deserialize_i8", err |-> "Deserializer"],
      [trait |-> "Deserializer", name |-> "dyn_deserialize_i16", need |-> "Deserializer", codec |-> "deserialize_i16", err |-> "Deserializer"],
      [trait |-> "Deserializer", name |-> "dyn_deserialize_i32", need |-> "Deserializer", codec |-> "deserialize_i32", err |-> "Deserializer"],
      [trait |-> "Deserializer", name |-> "dyn_deserialize_i64", need |-> "Deserializer", codec |-> "deserialize_i64", err |-> "Deserializer"],
      [trait |-> "Deserializer", name |-> "dyn_deserialize_128", need |-> "Deserializer", codec |-> "deserialize_i128", err |-> "Deserializer"],
      [trait |-> "Deserializer", name |-> "dyn_deserialize_u8", need |-> "Deserializer", codec |-> "deserialize_u8", err |-> "Deserializer"],
      [trait |-> "Deserializer", name |-> "dyn_deserialize_u16", need |-> "Deserializer", codec |-> "deserialize_u16", err |-> "Deserializer"],
      [trait |-> "Deserializer", name |-> "dyn_deserialize_u32", need |-> "Deserializer", codec |-> "deserialize_u32", err |-> "Deserializer"],
      [trait |-> "Deserializer", name |-> "dyn_deserialize_u64", need |-> "Deserializer", codec |-> "deserialize_u64", err |-> "Deserializer"],
      [trait |-> "Deserializer", name |-> "dyn_deserialize_u128", need |-> "Deserializer", codec |-> "deserialize_u128", err |-> "Deserializer"],
      [trait |-> "Deserializer", name |-> "dyn_deserialize_f32", need |-> "Deserializer", codec |-> "deserialize_f32", err |-> "Deserializer"],
      [trait |-> "Deserializer", name |-> "dyn_deserialize_f64", need |-> "Deserializer", codec |-> "deserialize_f64", err |-> "Deserializer"],
      [trait |-> "Deserializer", name |-> "dyn_deserialize_char", need |-> "Deserializer", codec |-> "deserialize_char", err |-> "Deserializer"],
      [trait |-> "Deserializer", name |-> "dyn_deserialize_str", need |-> "Deserializer", codec |-> "deserialize_str", err |-> "Deserializer"],
      [trait |-> "Deserializer", name |-> "dyn_deserialize_string", need |-> "Deserializer", codec |-> "deserialize_string", err |-> "Deserializer"],
      [trait |-> "Deserializer", name |-> "dyn_deserialize_bytes", need |-> "Deserializer", codec |-> "deserialize_bytes", err |-> "Deserializer"],
      [trait |-> "Deserializer", name |-> "dyn_deserialize_byte_buf", need |-> "Deserializer", codec |-> "deserialize_byte_buf", err |-> "Deserializer"],
      [trait |-> "Deserializer", name |-> "dyn_deserialize_option", need |-> "Deserializer", codec |-> "deserialize_option", err |-> "Deserializer"],
      [trait |-> "Deserializer", name |-> "dyn_deserialize_unit", need |-> "Deserializer", codec |-> "deserialize_unit", err |-> "Deserializer"],
      [trait |-> "Deserializer", name |-> "dyn_deserialize_unit_struct", need |-> "Deserializer", codec |-> "deserialize_unit_struct", err |-> "Deserializer"],
      [trait |-> "Deserializer", name |-> "dyn_deserialize_newtype_struct", need |-> "Deserializer", codec |-> "deserialize_newtype_struct", err |-> "Deserializer"],
      [trait |-> "Deserializer", name |-> "dyn_deserialize_seq", need |-> "Deserializer", codec |-> "deserialize_seq", err |-> "Deserializer"],
      [trait |-> "Deserializer", name |-> "dyn_deserialize_tuple", need |-> "Deserializer", codec |-> "deserialize_tuple", err |-> "Deserializer"],
      [trait |-> "Deserializer", name |-> "dyn_deserialize_tuple_struct", need |-> "Deserializer", codec |-> "deserialize_tuple_struct", err |-> "Deserializer"],
      [trait |-> "Deserializer", name |-> "dyn_deserialize_map", need |-> "Deserializer", codec |-> "deserialize_map", err |-> "Deserializer"],
      [trait |-> "Deserializer", name |-> "dyn_deserialize_struct", need |-> "Deserializer", codec |-> "deserialize_struct", err |-> "Deserializer"],
      [trait |-> "Deserializer", name |-> "dyn_deserialize_enum", need |-> "Deserializer", codec |-> "deserialize_enum", err |-> "Deserializer"],
      [trait |-> "Deserializer", name |-> "dyn_deserialize_identifier", need |-> "Deserializer", codec |-> "deserialize_identifier", err |-> "Deserializer"],
      [trait |-> "Deserializer", name |-> "dyn_deserialize_ignored_any", need |-> "Deserializer", codec |-> "deserialize_ignored_any", err |-> "Deserializer"] }

\* InplaceDeserializeSeed as DeserializeSeed: 1 methods, src/de.rs 1898-1908
SeedRows ==
    { [trait |-> "DeserializeSeed", name |-> "dyn_deserialize", need |-> "DeserializeSeed", codec |-> "deserialize", err |-> "DeserializeSeed"] }

\* InplaceVisitor as Visitor: 27 methods, src/de.rs 1948-2224
VisitRows ==
    { [trait |-> "Visitor", name |-> "dyn_visit_bool", need |-> "Visitor", codec |-> "visit_bool", err |-> "Visitor", arg |-> "-"],
      [trait |-> "Visitor", name |-> "dyn_visit_i8", need |-> "Visitor", codec |-> "visit_i8", err |-> "Visitor", arg |-> "-"],
      [trait |-> "Visitor", name |-> "dyn_visit_i16", need |-> "Visitor", codec |-> "visit_i16", err |-> "Visitor", arg |-> "-"],
      [trait |-> "Visitor", name |-> "dyn_visit_i32", need |-> "Visitor", codec |-> "visit_i32", err |-> "Visitor", arg |-> "-"],
      [trait |-> "Visitor", name |-> "dyn_visit_i64", need |-> "Visitor", codec |-> "visit_i64", err |-> "Visitor", arg |-> "-"],
      [trait |-> "Visitor", name |-> "dyn_visit_i128", need |-> "Visitor", codec |-> "visit_i128", err |-> "Visitor", arg |-> "-"],
      [trait |-> "Visitor", name |-> "dyn_visit_u8", need |-> "Visitor", codec |-> "visit_u8", err |-> "Visitor", arg |-> "-"],
      [trait |-> "Visitor", name |-> "dyn_visit_u16", need |-> "Visitor", codec |-> "visit_u16", err |-> "Visitor", arg |-> "-"],
      [trait |-> "Visitor", name |-> "dyn_visit_u32", need |-> "Visitor", codec |-> "visit_u32", err |-> "Visitor", arg |-> "-"],
      [trait |-> "Visitor", name |-> "dyn_visit_u64", need |-> "Visitor", codec |-> "visit_u64", err |-> "Visitor", arg |-> "-"],
      [trait |-> "Visitor", name |-> "dyn_visit_u128", need |-> "Visitor", codec |-> "visit_u128", err |-> "Visitor", arg |-> "-"],
      [trait |-> "Visitor", name |-> "dyn_visit_f32", need |-> "Visitor", codec |-> "visit_f32", err |-> "Visitor", arg |-> "-"],
      [trait |-> "Visitor", name |-> "dyn_visit_f64", need |-> "Visitor", codec |-> "visit_f64", err |-> "Visitor", arg |-> "-"],
      [trait |-> "Visitor", name |-> "dyn_visit_char", need |-> "Visitor", codec |-> "visit_char", err |-> "Visitor", arg |-> "-"],
      [trait |-> "Visitor", name |-> "dyn_visit_str", need |-> "Visitor", codec |-> "visit_str", err |-> "Visitor", arg |-> "-"],
      [trait |-> "Visitor", name |-> "dyn_visit_borrowed_str", need |-> "Visitor", codec |-> "visit_borrowed_str", err |-> "Visitor", arg |-> "-"],
      [trait |-> "Visitor", name |-> "dyn_visit_string", need |-> "Visitor", codec |-> "visit_string", err |-> "Visitor", arg |-> "-"],
      [trait |-> "Visitor", name |-> "dyn_visit_bytes", need |-> "Visitor", codec |-> "visit_bytes", err |-> "Visitor", arg |-> "-"],
      [trait |-> "Visitor", name |-> "dyn_visit_borrowed_bytes", need |-> "Visitor", codec |-> "visit_borrowed_bytes", err |-> "Visitor", arg |-> "-"],
      [trait |-> "Visitor", name |-> "dyn_visit_byte_buf", need |-> "Visitor", codec |-> "visit_byte_buf", err |-> "Visitor", arg |-> "-"],
      [trait |-> "Visitor", name |-> "dyn_visit_none", need |-> "Visitor", codec |-> "visit_none", err |-> "Visitor", arg |-> "-"],
      [trait |-> "Visitor", name |-> "dyn_visit_some", need |-> "Visitor", codec |-> "visit_some", err |-> "Visitor", arg |-> "Deserializer"],
      [trait |-> "Visitor", name |-> "dyn_visit_unit", need |-> "Visitor", codec |-> "visit_unit", err |-> "Visitor", arg |-> "-"],
      [trait |-> "Visitor", name |-> "dyn_visit_newtype_struct", need |-> "Visitor", codec |-> "visit_newtype_struct", err |-> "Visitor", arg |-> "Deserializer"],
      [trait |-> "Visitor", name |-> "dyn_visit_seq", need |-> "Visitor", codec |-> "visit_seq", err |-> "Visitor", arg |-> "SeqAccess"],
      [trait |-> "Visitor", name |-> "dyn_visit_map", need |-> "Visitor", codec |-> "visit_map", err |-> "Visitor", arg |-> "MapAccess"],
      [trait |-> "Visitor", name |-> "dyn_visit_enum", need |-> "Visitor", codec |-> "visit_enum", err |-> "Visitor", arg |-> "EnumAccess"] }

\* InplaceSeqAccess as SeqAccess: 1 methods, src/de.rs 2246-2257
SeqRows ==
    { [trait |-> "SeqAccess", name |-> "dyn_next_element", need |-> "SeqAccess", codec |-> "next_element_seed", err |-> "SeqAccess"] }

\* InplaceMapAccess as MapAccess: 3 methods, src/de.rs 2286-2321
MapRows ==
    { [trait |-> "MapAccess", name |-> "dyn_next_key", need |-> "MapAccess", codec |-> "next_key_seed", err |-> "MapAccess"],
      [trait |-> "MapAccess", name |-> "dyn_next_value", need |-> "MapAccess", codec |-> "next_value_seed", err |-> "MapAccess"],
      [trait |-> "MapAccess", name |-> "dyn_next_entry", need |-> "MapAccess", codec |-> "next_entry_seed", err |-> "MapAccess"] }

\* InplaceEnumAccess as EnumAccess: 1 methods, src/de.rs 2355-2370
EnumRows ==
    { [trait |-> "EnumAccess", name |-> "dyn_variant_seed", need |-> "EnumAccess", codec |-> "variant_seed", err |-> "EnumAccess"] }

\* InplaceEnumAccess as VariantAccess: 4 methods, src/de.rs 2374-2431
VariantRows ==
    { [trait |-> "VariantAccess", name |-> "dyn_unit_variant", need |-> "VariantAccess", codec |-> "unit_variant", err |-> "VariantAccess"],
      [trait |-> "VariantAccess", name |-> "dyn_newtype_variant", need |-> "VariantAccess", codec |-> "newtype_variant_seed", err |-> "VariantAccess"],
      [trait |-> "VariantAccess", name |-> "dyn_tuple_variant", need |-> "VariantAccess", codec |-> "tuple_variant", err |-> "VariantAccess"],
      [trait |-> "VariantAccess", name |-> "dyn_struct_variant", need |-> "VariantAccess", codec |-> "struct_variant", err |-> "VariantAccess"] }


\* enum InplaceDeserializer { None (default), Error(D::Error), Deserializer(D) }
InplaceDeserializer(tag, val) == [tag |-> tag, val |-> val]

\* enum InplaceVisitor { None (default), Value(V::Value), Visitor(V) }
InplaceVisitor(tag, val) == [tag |-> tag, val |-> val]

\* InplaceDeserializer::write_error
InplaceDeserializer_write_error(self, error) ==
    [self |-> InplaceDeserializer("Error", error), ret |-> Err("Error")]

\* dyn_deserialize_hint without the stage test for Error: a failed adapter
\* forwards the hint again.
dyn_deserialize_hint_reuse(self, row, r) ==
    IF self.tag \in {row.need, "Error"}
    THEN IF r.ok
         THEN [self |-> Default, ret |-> Ok("unit"), invoked |-> TRUE]
         ELSE [invoked |-> TRUE] @@ InplaceDeserializer_write_error(Default, r.val)
    ELSE [self |-> Default, ret |-> Err(row.err), invoked |-> FALSE]

\* Every hint method of InplaceDeserializer (HintRows); r is what the wrapped
\* codec answered to de.deserialize_x(visitor):
\*   if let Deserializer(de) = mem::take(self) {
\*       de.deserialize_x(visitor).map_err(|error| self.write_error(error)) }
\*   else { Err(DeserializerError::Deserializer) }
dyn_deserialize_hint(self, row, r) ==
    IF self.tag = row.need
    THEN IF r.ok
         THEN [self |-> Default, ret |-> Ok("unit"), invoked |-> TRUE]
         ELSE [invoked |-> TRUE] @@ InplaceDeserializer_write_error(Default, r.val)
    ELSE [self |-> Default, ret |-> Err(row.err), invoked |-> FALSE]

\* dyn_visit matching in place instead of taking: a concrete visitor that
\* failed stays in the adapter.
dyn_visit_in_place(self, row, r) ==
    IF self.tag = row.need
    THEN IF r.ok
         THEN [self |-> InplaceVisitor("Value", r.val), ret |-> Ok("unit"), invoked |-> TRUE]
         ELSE [self |-> self, ret |-> r, invoked |-> TRUE]
    ELSE [self |-> self, ret |-> Err(from(row.err)), invoked |-> FALSE]

\* dyn_visit dropping the value the concrete visitor made.
dyn_visit_lost(self, row, r) ==
    IF self.tag = row.need
    THEN [self |-> Default, ret |-> IF r.ok THEN Ok("unit") ELSE r, invoked |-> TRUE]
    ELSE [self |-> Default, ret |-> Err(from(row.err)), invoked |-> FALSE]

\* Every callback of InplaceVisitor (VisitRows); r is what the concrete visitor
\* answered to visitor.visit_x(..):
\*   if let Visitor(visitor) = mem::take(self) {
\*       visitor.visit_x(v).map(|value| *self = InplaceVisitor::Value(value)) }
\*   else { Err(DeserializeError::from(DeserializerError::Visitor)) }
dyn_visit(self, row, r) ==
    IF self.tag = row.need
    THEN IF r.ok
         THEN [self |-> InplaceVisitor("Value", r.val), ret |-> Ok("unit"), invoked |-> TRUE]
         ELSE [self |-> Default, ret |-> r, invoked |-> TRUE]
    ELSE [self |-> Default, ret |-> Err(from(row.err)), invoked |-> FALSE]

\* InplaceVisitor::dyn_expecting: the concrete visitor's text e, or the
\* adapter's own.
dyn_expecting(self, e) ==
    IF self.tag = "Visitor" THEN e ELSE "nothing (the visitor is not ready)"

\* visit_x for &mut dyn Visitor, as the wrapped codec calls it. A scalar
\* callback is dyn_visit_x(v).map_err(into_de_error); a callback with a nested
\* object wraps it in its Inplace adapter first, and `nested` is that adapter
\* when the dyn call returns:
\*   if let Inplace..::Error(error) = nested { Err(error) }
\*   else { result.map_err(DeserializeError::into_de_error) }
visit(self, row, r, nested) ==
    LET res == dyn_visit(self, row, r)
    IN  [self |-> res.self, invoked |-> res.invoked,
         ret |-> IF row.arg # "-" /\ nested.tag = "Error"
                 THEN Err(nested.val)
                 ELSE map_err_into_de_error(res.ret)]

\* enum InplaceDeserializeSeed { None (default), Value(T::Value), DeserializeSeed(T) }
InplaceDeserializeSeed(tag, val) == [tag |-> tag, val |-> val]

\* enum InplaceSeqAccess { Error(A::Error), SeqAccess(A) }
InplaceSeqAccess(tag, val) == [tag |-> tag, val |-> val]

\* enum InplaceMapAccess { Error(A::Error), MapAccess(A) }
InplaceMapAccess(tag, val) == [tag |-> tag, val |-> val]

\* enum InplaceEnumAccess { None (default), Error(A::Error), EnumAccess(A),
\*                         VariantAccess(A::Variant) }
InplaceEnumAccess(tag, val) == [tag |-> tag, val |-> val]

\* InplaceDeserializeSeed::dyn_deserialize (SeedRows); r is what the concrete
\* seed answered to seed.deserialize(deserializer):
\*   if let DeserializeSeed(seed) = mem::take(self) {
\*       seed.deserialize(deserializer).map(|value| *self = Value(value)) }
\*   else { Err(DeserializeError::from(DeserializerError::DeserializeSeed)) }
dyn_deserialize(self, row, r) ==
    IF self.tag = row.need
    THEN IF r.ok
         THEN [self |-> InplaceDeserializeSeed("Value", r.val), ret |-> Ok("unit"), invoked |-> TRUE]
         ELSE [self |-> Default, ret |-> r, invoked |-> TRUE]
    ELSE [self |-> Default, ret |-> Err(from(row.err)), invoked |-> FALSE]

\* deserialize looking at the dyn result before the nested adapter.
deserialize_dyn_first(self, row, r, nested) ==
    LET res == dyn_deserialize(self, row, r)
    IN  [self |-> res.self, invoked |-> res.invoked,
         ret |-> IF ~res.ret.ok
                 THEN map_err_into_de_error(res.ret)
                 ELSE IF nested.tag = "Error" THEN Err(nested.val) ELSE res.ret]

\* deserialize for &mut dyn DeserializeSeed, as a wrapped access calls it;
\* `nested` is the InplaceDeserializer it made when the dyn call returns:
\*   match deserializer { InplaceDeserializer::Error(error) => Err(error),
\*                        _ => result.map_err(DeserializeError::into_de_error) }
deserialize(self, row, r, nested) ==
    LET res == dyn_deserialize(self, row, r)
    IN  [self |-> res.self, invoked |-> res.invoked,
         ret |-> IF nested.tag = "Error"
                 THEN Err(nested.val)
                 ELSE map_err_into_de_error(res.ret)]

\* InplaceDeserializer::dyn_is_human_readable; h is the codec's answer.
InplaceDeserializer_dyn_is_human_readable(self, h) ==
    IF self.tag = "Deserializer" THEN h ELSE TRUE

\* InplaceSeqAccess::write_error
InplaceSeqAccess_write_error(self, error) ==
    [self |-> InplaceSeqAccess("Error", error), ret |-> Err("Error")]

\* InplaceSeqAccess::dyn_next_element (SeqRows); r is what the wrapped access
\* answered to access.next_element_seed(seed). The adapter is matched in
\* place, not taken:
\*   if let SeqAccess(access) = self {
\*       access.next_element_seed(seed).map_err(|error| self.write_error(error)) }
\*   else { Err(DeserializerError::SeqAccess) }
dyn_next_element(self, row, r) ==
    IF self.tag = row.need
    THEN IF r.ok
         THEN [self |-> self, ret |-> r, invoked |-> TRUE]
         ELSE [invoked |-> TRUE] @@ InplaceSeqAccess_write_error(self, r.val)
    ELSE [self |-> self, ret |-> Err(row.err), invoked |-> FALSE]

\* dyn_size_hint passing on the answer of an access it no longer holds.
InplaceSeqAccess_dyn_size_hint_stale(self, h) == h

\* InplaceSeqAccess::dyn_size_hint; h is the wrapped access's answer.
InplaceSeqAccess_dyn_size_hint(self, h) ==
    IF self.tag = "Error" THEN "None" ELSE h

\* InplaceMapAccess::write_error
InplaceMapAccess_write_error(self, error) ==
    [self |-> InplaceMapAccess("Error", error), ret |-> Err("Error")]

\* InplaceMapAccess::dyn_next_key, dyn_next_value, dyn_next_entry (MapRows); r
\* is what the wrapped access answered. The adapter is matched in place:
\*   if let MapAccess(access) = self {
\*       access.next_x_seed(..).map_err(|error| self.write_error(error)) }
\*   else { Err(DeserializerError::MapAccess) }
dyn_next(self, row, r) ==
    IF self.tag = row.need
    THEN IF r.ok
         THEN [self |-> self, ret |-> r, invoked |-> TRUE]
         ELSE [invoked |-> TRUE] @@ InplaceMapAccess_write_error(self, r.val)
    ELSE [self |-> self, ret |-> Err(row.err), invoked |-> FALSE]

\* InplaceMapAccess::dyn_size_hint; h is the wrapped access's answer.
InplaceMapAccess_dyn_size_hint(self, h) ==
    IF self.tag = "Error" THEN "None" ELSE h

\* InplaceEnumAccess::write_error
InplaceEnumAccess_write_error(self, error) ==
    [self |-> InplaceEnumAccess("Error", error), ret |-> Err("Error")]

\* dyn_variant_seed not keeping the variant access it was given.
dyn_variant_seed_taken(self, row, r) ==
    IF self.tag = row.need
    THEN IF r.ok
         THEN [self |-> Default, ret |-> Ok("unit"), invoked |-> TRUE]
         ELSE [invoked |-> TRUE] @@ InplaceEnumAccess_write_error(Default, r.val)
    ELSE [self |-> Default, ret |-> Err(row.err), invoked |-> FALSE]

\* InplaceEnumAccess::dyn_variant_seed (EnumRows); r is what the wrapped access
\* answered to access.variant_seed(seed), Ok holding the variant access:
\*   if let EnumAccess(access) = mem::take(self) {
\*       match access.variant_seed(seed) {
\*           Ok(((), variant)) => { *self = VariantAccess(variant); Ok(((), self)) }
\*           Err(error) => Err(self.write_error(error)) } }
\*   else { Err(DeserializerError::EnumAccess) }
dyn_variant_seed(self, row, r) ==
    IF self.tag = row.need
    THEN IF r.ok
         THEN [self |-> InplaceEnumAccess("VariantAccess", r.val), ret |-> Ok("unit"), invoked |-> TRUE]
         ELSE [invoked |-> TRUE] @@ InplaceEnumAccess_write_error(Default, r.val)
    ELSE [self |-> Default, ret |-> Err(row.err), invoked |-> FALSE]

\* dyn_variant matching in place: the variant access stays for another call.
dyn_variant_in_place(self, row, r) ==
    IF self.tag = row.need
    THEN IF r.ok
         THEN [self |-> self, ret |-> Ok("unit"), invoked |-> TRUE]
         ELSE [invoked |-> TRUE] @@ InplaceEnumAccess_write_error(Default, r.val)
    ELSE [self |-> self, ret |-> Err(row.err), invoked |-> FALSE]

\* InplaceEnumAccess::dyn_unit_variant, dyn_newtype_variant, dyn_tuple_variant,
\* dyn_struct_variant (VariantRows); r is what the variant access answered:
\*   if let VariantAccess(access) = mem::take(self) {
\*       access.x_variant(..).map_err(|error| self.write_error(error)) }
\*   else { Err(DeserializerError::VariantAccess) }
dyn_variant(self, row, r) ==
    IF self.tag = row.need
    THEN IF r.ok
         THEN [self |-> Default, ret |-> Ok("unit"), invoked |-> TRUE]
         ELSE [invoked |-> TRUE] @@ InplaceEnumAccess_write_error(Default, r.val)
    ELSE [self |-> Default, ret |-> Err(row.err), invoked |-> FALSE]

\* ------------------------------------------- values, and producing them whole
\* A value of the serde data model: its kind k (bool, u8, i32, f32, char, str,
\* unit, none, some, unit_struct, unit_variant, newtype_struct, newtype_variant,
\* seq, tuple, tuple_struct, tuple_variant, map, struct, struct_variant), a
\* number n (with e decimals for a float), a text s (the string, or the name
\* of the struct, variant or field) and its parts. The parts of a map are
\* entries (key, value), those of a struct are fields (name s, value).
V(k, n, e, s, items) == [k |-> k, n |-> n, e |-> e, s |-> s, items |-> items]

\* A value held as &dyn Serialize.
Dyn(v) == V("dyn", 0, 0, "", <<v>>)

\* The method of the facade that is called `name` on `trait`.
Row(trait, name) == CHOOSE row \in Rows : row.trait = trait /\ row.name = name

\* impl From<SerializerError> for SerializeError, and SerializeError::custom:
\* the encoded status, or the boxed text.
SerializeError_from(value) == "SerializerError(" \o value \o ")"
SerializeError_custom(msg) == "String(" \o msg \o ")"

\* impl fmt::Display for SerializerError
SerializerError_Display(error) ==
    CASE error = "Error" -> "an error occurred during the serialization"
      [] error = "Serializer" -> "the serializer is not ready"
      [] error = "SerializeSeq" -> "the serializer is not ready to serialize the sequence"
      [] error = "SerializeTuple" -> "the serializer is not ready to serialize the tuple"
      [] error = "SerializeTupleStruct" -> "the serializer is not ready to serialize the tuple struct"
      [] error = "SerializeTupleVariant" -> "the serializer is not ready to serialize the tuple variant"
      [] error = "SerializeMap" -> "the serializer is not ready to serialize the map"
      [] error = "SerializeStruct" -> "the serializer is not ready to serialize the struct"
      [] error = "SerializeStructVariant" -> "the serializer is not ready to serialize the struct variant"

\* SerializeError::into_ser_error: E::custom of the status's Display text or
\* of the boxed text; the codec error made is that text.
into_ser_error(self) ==
    IF \E error \in SerializerError : self = SerializeError_from(error)
    THEN SerializerError_Display(CHOOSE error \in SerializerError : self = SerializeError_from(error))
    ELSE SubSeq(self, 8, Len(self) - 1)

\* The reference textual codec writes numbers in decimal and strings quoted.
Digit(d) == SubSeq("0123456789", d + 1, d + 1)

RECURSIVE Decimal(_)
Decimal(n) ==
    IF n < 0 THEN "-" \o Decimal(-n)
    ELSE IF n < 10 THEN Digit(n)
    ELSE Decimal(n \div 10) \o Digit(n % 10)

RECURSIVE Fraction(_, _)
Fraction(n, e) ==
    IF e = 0 THEN "" ELSE Fraction(n \div 10, e - 1) \o Digit(n % 10)

RECURSIVE Escape(_)
Escape(s) ==
    IF s = "" THEN ""
    ELSE (IF Head(s) \in {"\"", "\\"} THEN "\\" \o Head(s) ELSE Head(s)) \o Escape(Tail(s))

Quote(s) == "\"" \o Escape(s) \o "\""

\* The reference textual codec as a writer: the text written so far, one
\* frame per open composite (is the next element its first, and what closes
\* it), whether a map key is being written, and the methods it has
\* received, in order.
JsonSerializer(out, frames, key, calls) ==
    [out |-> out, frames |-> frames, key |-> key, calls |-> calls]

\* Passing `&value` on as &dyn Serialize, as the generic methods of the
\* facade references do for the values they carry.
DynArg(row, v) ==
    IF row \in ElementRows \/
       row.codec \in {"serialize_some", "serialize_newtype_struct", "serialize_newtype_variant"}
    THEN [v EXCEPT !.items = [i \in 1 .. Len(v.items) |-> Dyn(v.items[i])]]
    ELSE v

RECURSIVE Serialize(_, _, _)
RECURSIVE serialize(_, _, _)
RECURSIVE Call(_, _, _, _)
RECURSIVE json_serialize(_, _, _)
RECURSIVE SerializeItems(_, _, _, _, _)

\* One method of the reference codec, row.codec, with the value or the open
\* composite v. A value it carries is written by its serde::Serialize.
json_serialize(json_, row, v) ==
    LET op == row.codec
        json == [json_ EXCEPT !.calls = Append(@, op)]
        put(j, s) == [j EXCEPT !.out = @ \o s]
        ok(j, val) == [chain |-> <<>>, json |-> j, ret |-> Ok(val)]
        open(s, close) ==
            ok([put(json, s) EXCEPT !.frames = <<[first |-> TRUE, close |-> close]>> \o @], "compound")
        next == put([json EXCEPT !.frames = <<[Head(@) EXCEPT !.first = FALSE]>> \o Tail(@)],
                    IF Head(json.frames).first THEN "" ELSE ",")
        abs == IF v.n < 0 THEN 0 - v.n ELSE v.n
        ints == {"serialize_i8", "serialize_i16", "serialize_i32", "serialize_i64",
                 "serialize_u8", "serialize_u16", "serialize_u32", "serialize_u64"}
        keyed == op \in {"serialize_key", "serialize_entry"}
        \* where the value the method carries is written, and what follows it
        into == CASE op = "serialize_newtype_variant" -> put(json, "{" \o Quote(v.s) \o ":")
                  [] op = "serialize_element" \/ (op = "serialize_field" /\ v.k = "element") -> next
                  [] op = "serialize_field" -> put(next, Quote(v.s) \o ":")
                  [] keyed -> [next EXCEPT !.key = TRUE]
                  [] op = "serialize_value" -> put(json, ":")
                  [] OTHER -> json
        written(r) ==
            LET k == IF keyed THEN [r EXCEPT !.json.key = FALSE] ELSE r
            IN  CASE ~r.ret.ok -> k
                  [] op = "serialize_entry" -> Serialize(v.items[2], <<>>, put(k.json, ":"))
                  [] op = "serialize_newtype_variant" -> [k EXCEPT !.json = put(@, "}")]
                  [] OTHER -> k
    IN  CASE json.key /\ op \in ints -> ok(put(json, "\"" \o Decimal(v.n) \o "\""), "ok")
          [] json.key /\ op \notin {"serialize_str", "serialize_char", "serialize_unit_variant",
                                    "serialize_newtype_struct"} ->
               [chain |-> <<>>, json |-> json, ret |-> Err("key must be a string")]
          [] op = "serialize_bool" -> ok(put(json, IF v.n = 1 THEN "true" ELSE "false"), "ok")
          [] op \in ints -> ok(put(json, Decimal(v.n)), "ok")
          [] op \in {"serialize_f32", "serialize_f64"} ->
               ok(put(json, (IF v.n < 0 THEN "-" ELSE "") \o Decimal(abs \div 10 ^ v.e)
                            \o "." \o Fraction(abs % 10 ^ v.e, v.e)), "ok")
          [] op \in {"serialize_char", "serialize_str", "serialize_unit_variant"} ->
               ok(put(json, Quote(v.s)), "ok")
          [] op \in {"serialize_unit", "serialize_none", "serialize_unit_struct"} ->
               ok(put(json, "null"), "ok")
          [] op \in {"serialize_seq", "serialize_tuple", "serialize_tuple_struct"} -> open("[", "]")
          [] op = "serialize_tuple_variant" -> open("{" \o Quote(v.s) \o ":[", "]}")
          [] op \in {"serialize_map", "serialize_struct"} -> open("{", "}")
          [] op = "serialize_struct_variant" -> open("{" \o Quote(v.s) \o ":{", "}}")
          [] op = "skip_field" -> ok(json, "ok")
          [] op = "end" ->
               ok([put(json, Head(json.frames).close) EXCEPT !.frames = Tail(@)], "ok")
          [] op \in {"serialize_some", "serialize_newtype_struct", "serialize_newtype_variant",
                     "serialize_element", "serialize_field", "serialize_key", "serialize_value",
                     "serialize_entry"} ->
               written(Serialize(v.items[1], <<>>, into))

\* A method of a serializer: of the codec itself when `chain` is empty, else
\* of the &mut dyn Serializer (or composite) on top of it, whose methods call
\* the facade method of the same name on the bridge Head(chain) and map the
\* status by SerializeError::from. The bridge calls the same method of the
\* serializer it wraps, the rest of the chain.
Call(chain, json, row, v) ==
    LET bridge(below) ==
            LET res == IF row \in SerializerRows THEN dyn_serialize(Head(chain), row, below.ret)
                       ELSE IF row \in ElementRows THEN dyn_serialize_element(Head(chain), row, below.ret)
                       ELSE dyn_end(Head(chain), row, below.ret)
            IN  [chain |-> <<res.self>> \o (IF res.invoked THEN below.chain ELSE Tail(chain)),
                 json |-> IF res.invoked THEN below.json ELSE json,
                 ret |-> IF res.ret = "Ok" THEN Ok("unit") ELSE Err(SerializeError_from(res.ret))]
    IN  IF chain = <<>> THEN json_serialize(json, row, v)
        ELSE bridge(Call(Tail(chain), json, row, DynArg(row, v)))

\* The element, field or entry calls of a composite, in order, up to the
\* first that fails.
SerializeItems(items, chain, json, trait, name) ==
    LET item == IF Head(items).k \in {"entry", "field"} THEN Head(items)
                ELSE V("element", 0, 0, "", <<Head(items)>>)
        rest(r) == IF r.ret.ok THEN SerializeItems(Tail(items), r.chain, r.json, trait, name) ELSE r
    IN  IF items = <<>> THEN [chain |-> chain, json |-> json, ret |-> Ok("unit")]
        ELSE rest(Call(chain, json, Row(trait, name), item))

\* serde::Serialize::serialize of the value v into the serializer (chain,
\* json): one call for a scalar, open, parts, end for a composite; a
\* &dyn Serialize goes through the facade.
Serialize(v, chain, json) ==
    LET row == Row("Serializer", "dyn_serialize_" \o v.k)
        name == IF v.k \in {"seq", "tuple"} THEN "dyn_serialize_element"
                ELSE IF v.k = "map" THEN "dyn_serialize_entry"
                ELSE "dyn_serialize_field"
        end(body) == IF body.ret.ok THEN Call(body.chain, body.json, Row(row.f, "dyn_end"), v)
                     ELSE body
        parts(open) == IF row \in TerminalRows \/ ~open.ret.ok THEN open
                       ELSE end(SerializeItems(v.items, open.chain, open.json, row.f, name))
    IN  IF v.k = "dyn" THEN serialize(v, chain, json)
        ELSE parts(Call(chain, json, row, v))

\* The match looking at the result of dyn_serialize before the bridge: a
\* failed nested bridge gives the text of the status, not the error it holds.
serialize_match_result_first(serializer, result) ==
    CASE ~result.ok -> Err(into_ser_error(result.val))
      [] serializer.tag = "Ok" -> Ok(serializer.val)
      [] serializer.tag = "Error" -> Err(serializer.val)
      [] OTHER -> Err("unreachable!")

\* The match that ends serialize of dyn Serialize, on the bridge and on the
\* result of the value's dyn_serialize; the panic of unreachable!() is the
\* outcome Err("unreachable!").
serialize_match(serializer, result) ==
    CASE serializer.tag = "Ok" -> Ok(serializer.val)
      [] serializer.tag = "Error" -> Err(serializer.val)
      [] OTHER -> IF result.ok THEN Err("unreachable!")
                  ELSE Err(into_ser_error(result.val))

\* impl serde::Serialize for dyn Serialize: a new bridge on the serializer,
\* the value's dyn_serialize (its own serialize, by the blanket impl) into
\* it, and the outcome read off the bridge:
\*   match serializer { Ok(ok) => Ok(ok), Error(error) => Err(error),
\*       _ => match result { Ok(_) => unreachable!(..),
\*                           Err(error) => Err(error.into_ser_error()) } }
serialize(self, chain, json) ==
    LET read(result) ==
            [chain |-> Tail(result.chain), json |-> result.json,
             ret |-> serialize_match(Head(result.chain), result.ret)]
    IN  read(Serialize(self.items[1], <<new("S")>> \o chain, json))

\* ------------------------------------------------- consuming a text whole
\* The type a value is consumed as: the value without what it holds. An
\* option keeps the type of what it may hold, a sequence and a map the type
\* of their first part (an empty one holds units), an enum its one variant.
RECURSIVE Shape(_)
Shape(v) ==
    LET parts == [i \in 1 .. Len(v.items) |-> Shape(v.items[i])]
    IN  CASE v.k \in {"bool", "u8", "i32", "f32", "char", "str", "unit"} -> V(v.k, 0, 0, "", <<>>)
          [] v.k = "none" -> V("option", 0, 0, "", v.items)
          [] v.k = "some" -> V("option", 0, 0, "", parts)
          [] v.k = "seq" ->
               V(v.k, 0, 0, "", IF parts = <<>> THEN <<V("unit", 0, 0, "", <<>>)>> ELSE <<Head(parts)>>)
          [] v.k = "map" ->
               V(v.k, 0, 0, "", IF parts # <<>> THEN <<Head(parts)>>
                                ELSE <<V("entry", 0, 0, "", <<V("str", 0, 0, "", <<>>),
                                                              V("unit", 0, 0, "", <<>>)>>)>>)
          [] OTHER -> V(v.k, 0, 0, v.s, parts)

\* The hint T::deserialize gives for the type.
HintOf(ty) ==
    CASE ty.k = "str" -> "string"
      [] ty.k \in {"unit_variant", "newtype_variant", "tuple_variant", "struct_variant"} -> "enum"
      [] OTHER -> ty.k

\* The derived type of a field or variant name: one of ty's names, and for a
\* struct (n = 0) any other name too, to be skipped.
Identifier(n, names) ==
    V("identifier", n, 0, "", [i \in 1 .. Len(names) |-> V("str", 0, 0, names[i], <<>>)])

Some(val) == [some |-> TRUE, val |-> val]
None == [some |-> FALSE]

\* The text without its leading blanks, whether it starts with p, and the
\* text after its first n characters.
RECURSIVE ws(_)
ws(s) == IF s # "" /\ Head(s) \in {" ", "\n", "\t"} THEN ws(Tail(s)) ELSE s
StartsWith(s, p) == Len(s) >= Len(p) /\ SubSeq(s, 1, Len(p)) = p
Drop(s, n) == SubSeq(s, n + 1, Len(s))

\* The string whose opening quote has just been read: its text, the rest of
\* the input and whether it was written without escapes.
RECURSIVE ParseStr(_, _, _)
ParseStr(s, val, raw) ==
    CASE s = "" -> [ok |-> FALSE, val |-> val, raw |-> raw, rest |-> s]
      [] Head(s) = "\"" -> [ok |-> TRUE, val |-> val, raw |-> raw, rest |-> Tail(s)]
      [] Head(s) = "\\" ->
           IF Len(s) >= 2 /\ SubSeq(s, 2, 2) \in {"\"", "\\"}
           THEN ParseStr(Drop(s, 2), val \o SubSeq(s, 2, 2), FALSE)
           ELSE [ok |-> FALSE, val |-> val, raw |-> raw, rest |-> s]
      [] OTHER -> ParseStr(Tail(s), val \o Head(s), raw)

\* The digits the text starts with: their number n, how many, and the rest.
RECURSIVE ParseDigits(_, _, _)
ParseDigits(s, n, len) ==
    IF s # "" /\ \E d \in 0 .. 9 : Head(s) = Digit(d)
    THEN ParseDigits(Tail(s), 10 * n + (CHOOSE d \in 0 .. 9 : Head(s) = Digit(d)), len + 1)
    ELSE [n |-> n, len |-> len, rest |-> s]

\* A number: u64 if it has no sign, i64 if it has one, f64 if it has a
\* fraction, of e decimals.
ParseNumber(s) ==
    LET neg == StartsWith(s, "-")
        int == ParseDigits(IF neg THEN Tail(s) ELSE s, 0, 0)
        frac == ParseDigits(Tail(int.rest), 0, 0)
        sign(n) == IF neg THEN 0 - n ELSE n
    IN  IF int.len = 0 THEN [ok |-> FALSE, rest |-> s]
        ELSE IF ~StartsWith(int.rest, ".")
        THEN [ok |-> TRUE, rest |-> int.rest,
              val |-> V(IF neg THEN "i64" ELSE "u64", sign(int.n), 0, "", <<>>)]
        ELSE IF frac.len = 0 THEN [ok |-> FALSE, rest |-> s]
        ELSE [ok |-> TRUE, rest |-> frac.rest,
              val |-> V("f64", sign(int.n * 10 ^ frac.len + frac.n), frac.len, "", <<>>)]

\* The text after the value it starts with, for a value nobody reads.
RECURSIVE SkipNested(_, _)
SkipNested(s, depth) ==
    CASE depth = 0 -> [ok |-> TRUE, rest |-> s]
      [] s = "" -> [ok |-> FALSE, rest |-> s]
      [] Head(s) = "\"" ->
           LET p == ParseStr(Tail(s), "", TRUE)
           IN  IF p.ok THEN SkipNested(p.rest, depth) ELSE [ok |-> FALSE, rest |-> s]
      [] Head(s) \in {"[", "{"} -> SkipNested(Tail(s), depth + 1)
      [] Head(s) \in {"]", "}"} -> SkipNested(Tail(s), depth - 1)
      [] OTHER -> SkipNested(Tail(s), depth)

SkipValue(s) ==
    CASE StartsWith(s, "null") \/ StartsWith(s, "true") -> [ok |-> TRUE, rest |-> Drop(s, 4)]
      [] StartsWith(s, "false") -> [ok |-> TRUE, rest |-> Drop(s, 5)]
      [] StartsWith(s, "\"") ->
           LET p == ParseStr(Tail(s), "", TRUE) IN [ok |-> p.ok, rest |-> p.rest]
      [] StartsWith(s, "[") \/ StartsWith(s, "{") -> SkipNested(Tail(s), 1)
      [] OTHER -> LET p == ParseNumber(s) IN [ok |-> p.ok, rest |-> p.rest]

\* InplaceVisitor::expect_err and InplaceDeserializeSeed::expect_err:
\*   match result { Ok(_) => unreachable!(),
\*                  Err(error) => DeserializeError::DeserializerError(error) }
expect_err(result) == IF result.ok THEN "unreachable!" ELSE from(result.val)

RECURSIVE Deserialize(_, _, _)
RECURSIVE json_deserialize(_, _, _, _)
RECURSIVE Callback(_, _, _, _)
RECURSIVE TVisit(_, _, _, _)
RECURSIVE Seed(_, _, _)
RECURSIVE json_next(_, _, _, _, _)
RECURSIVE next_element_seed(_, _, _)
RECURSIVE next_key_seed(_, _, _)
RECURSIVE next_value_seed(_, _, _)
RECURSIVE next_entry_seed(_, _, _, _)
RECURSIVE json_variant(_, _, _, _)
RECURSIVE variant_seed(_, _, _)
RECURSIVE variant(_, _, _, _)

\* T::deserialize(deserializer) with a &mut dyn Deserializer, the adapter
\* `self` over the codec reading `input`: the type's hint with the type's
\* visitor, through deserialize_x for &mut dyn Deserializer:
\*   let mut visitor = InplaceVisitor::Visitor(visitor);
\*   let result = self.dyn_deserialize_x(&mut visitor);
\*   match visitor { InplaceVisitor::Value(value) => Ok(value),
\*                   visitor => Err(visitor.expect_err(result)) }
Deserialize(ty, self, input) ==
    LET row == CHOOSE row \in HintRows : row.name = "dyn_deserialize_" \o HintOf(ty)
        visitor == InplaceVisitor("Visitor", ty)
        match(c) ==
            LET result == dyn_deserialize_hint(self, row, c.ret)
            IN  [input |-> c.input, self |-> result.self,
                 ret |-> IF c.visitor.tag = "Value" THEN Ok(c.visitor.val)
                         ELSE Err(expect_err(result.ret))]
    IN  match(IF self.tag = row.need THEN json_deserialize(self.val, input, row, visitor)
              ELSE [ret |-> Ok("-"), input |-> input, visitor |-> visitor])

\* deserialize_x(visitor) of the reference textual codec, reading a value
\* (de = "json") or a map key (de = "key") at `input`, with a
\* &mut dyn Visitor. It decides the callback from the hint and the text.
json_deserialize(de, input, row, visitor) ==
    LET hint == row.codec
        s == ws(input)
        c == IF s = "" THEN "" ELSE Head(s)
        fail(msg) == [name |-> "-", arg |-> msg, rest |-> s, close |-> ""]
        call(name, arg, rest) == [name |-> name, arg |-> arg, rest |-> rest, close |-> ""]
        close(d, ch) == [d EXCEPT !.close = ch]
        unit == V("unit", 0, 0, "", <<>>)
        null(name) == IF StartsWith(s, "null") THEN call(name, unit, Drop(s, 4))
                      ELSE fail("invalid type")
        bool == CASE StartsWith(s, "true") -> call("dyn_visit_bool", V("bool", 1, 0, "", <<>>), Drop(s, 4))
                  [] StartsWith(s, "false") -> call("dyn_visit_bool", V("bool", 0, 0, "", <<>>), Drop(s, 5))
                  [] OTHER -> fail("invalid type")
        str == LET p == ParseStr(Tail(s), "", TRUE)
               IN  IF c # "\"" THEN fail("invalid type")
                   ELSE IF ~p.ok THEN fail("EOF while parsing a string")
                   ELSE call(IF p.raw THEN "dyn_visit_borrowed_str" ELSE "dyn_visit_str",
                             V("str", 0, 0, p.val, <<>>), p.rest)
        num(t) == LET p == ParseNumber(t)
                  IN  IF p.ok THEN call("dyn_visit_" \o p.val.k, p.val, p.rest)
                      ELSE fail("invalid type")
        seq == IF c = "[" THEN close(call("dyn_visit_seq", [first |-> TRUE], Tail(s)), "]")
               ELSE fail("invalid type")
        map == IF c = "{" THEN close(call("dyn_visit_map", [first |-> TRUE], Tail(s)), "}")
               ELSE fail("invalid type")
        enum == CASE c = "\"" -> call("dyn_visit_enum", "UnitVariantAccess", s)
                  [] c = "{" -> close(call("dyn_visit_enum", "VariantAccess", Tail(s)), "}")
                  [] OTHER -> fail("invalid type")
        ignored == LET p == SkipValue(s)
                   IN  IF p.ok THEN call("dyn_visit_unit", unit, p.rest) ELSE fail("expected value")
        numbers == {"deserialize_i8", "deserialize_i16", "deserialize_i32", "deserialize_i64",
                    "deserialize_i128", "deserialize_u8", "deserialize_u16", "deserialize_u32",
                    "deserialize_u64", "deserialize_u128", "deserialize_f32", "deserialize_f64"}
        \* the callback, with what and at which text, and what must close it
        plan ==
            CASE s = "" -> fail("EOF while parsing a value")
              [] hint = "deserialize_option" /\ de = "json" /\ StartsWith(s, "null") ->
                   call("dyn_visit_none", unit, Drop(s, 4))
              [] hint = "deserialize_option" -> call("dyn_visit_some", de, s)
              [] hint = "deserialize_newtype_struct" -> call("dyn_visit_newtype_struct", de, s)
              [] hint = "deserialize_enum" -> enum
              [] de = "key" /\ hint \in numbers ->
                   IF c = "\"" THEN close(num(Tail(s)), "\"") ELSE fail("key must be a string")
              [] de = "key" -> str
              [] hint \in numbers -> num(s)
              [] hint = "deserialize_bool" -> bool
              [] hint \in {"deserialize_char", "deserialize_str", "deserialize_string",
                           "deserialize_identifier", "deserialize_bytes", "deserialize_byte_buf"} -> str
              [] hint \in {"deserialize_unit", "deserialize_unit_struct"} -> null("dyn_visit_unit")
              [] hint \in {"deserialize_seq", "deserialize_tuple", "deserialize_tuple_struct"} -> seq
              [] hint = "deserialize_map" -> map
              [] hint = "deserialize_struct" -> IF c = "[" THEN seq ELSE map
              [] hint = "deserialize_ignored_any" -> ignored
              [] hint = "deserialize_any" ->
                   CASE c = "n" -> null("dyn_visit_unit")
                     [] c \in {"t", "f"} -> bool
                     [] c = "\"" -> str
                     [] c = "[" -> seq
                     [] c = "{" -> map
                     [] OTHER -> num(s)
        closed(r, ch) ==
            CASE ~r.ret.ok \/ ch = "" -> r
              [] StartsWith(ws(r.input), ch) -> [r EXCEPT !.input = Drop(ws(@), 1)]
              [] OTHER -> [r EXCEPT !.ret = Err("trailing characters")]
    IN  IF plan.name = "-" THEN [ret |-> Err(plan.arg), input |-> s, visitor |-> visitor]
        ELSE closed(Callback(visitor, plan.name, plan.arg, plan.rest), plan.close)

\* visit_x for &mut dyn Visitor, as the codec calls it on the adapter `self`
\* with the value it read, or with its own deserializer or access, which
\* the method wraps in its Inplace adapter.
Callback(self, name, arg, input) ==
    LET row == CHOOSE row \in VisitRows : row.name = name
        nested == CASE row.arg = "Deserializer" -> InplaceDeserializer("Deserializer", arg)
                    [] row.arg = "SeqAccess" -> InplaceSeqAccess("SeqAccess", arg)
                    [] row.arg = "MapAccess" -> InplaceMapAccess("MapAccess", arg)
                    [] row.arg = "EnumAccess" -> InplaceEnumAccess("EnumAccess", arg)
                    [] OTHER -> arg
        store(t) ==
            LET result == visit(self, row, t.ret, t.self)
            IN  [input |-> t.input, visitor |-> result.self, ret |-> result.ret]
    IN  store(IF self.tag = row.need THEN TVisit(self.val, row, nested, input)
              ELSE [ret |-> Ok("-"), self |-> nested, input |-> input])

\* The visitor of the type ty (serde's for the standard types, the derived
\* one for a struct or an enum) in the callback `row` with `arg`: the value
\* the codec read, or the &mut dyn Deserializer, SeqAccess, MapAccess or
\* EnumAccess adapter, returned in `self` as the visitor leaves it.
TVisit(ty, row, arg, input) ==
    LET cb == IF row.codec \in {"visit_borrowed_str", "visit_string"} THEN "visit_str" ELSE row.codec
        done(ret) == [ret |-> ret, self |-> arg, input |-> input]
        map(r, val) == [r EXCEPT !.ret = IF r.ret.ok THEN Ok(val) ELSE r.ret]
        custom_(msg) == done(Err(custom(msg)))
        int(lo, hi) == IF lo <= arg.n /\ arg.n <= hi THEN done(Ok(V(ty.k, arg.n, 0, "", <<>>)))
                       ELSE custom_("invalid value")
        made(r) == map(r, V(ty.k, 0, 0, ty.s, r.ret.val))
        held(r) == map(r, V(IF ty.k = "option" THEN "some" ELSE ty.k, 0, 0, ty.s, <<r.ret.val>>))
        names == [i \in 1 .. Len(ty.items) |-> ty.items[i].s]
        typeof(name) == (CHOOSE i \in 1 .. Len(ty.items) : names[i] = name)
        \* a tuple, or a struct written as a sequence: one element per type
        tys == IF ty.k = "struct" THEN [i \in 1 .. Len(ty.items) |-> ty.items[i].items[1]]
               ELSE ty.items
        RECURSIVE elements(_, _, _, _)
        elements(todo, seq, rest, acc) ==
            LET got(r) ==
                    CASE ~r.ret.ok -> r
                      [] ~r.ret.val.some -> [r EXCEPT !.ret = Err(custom("invalid length"))]
                      [] OTHER -> elements(Tail(todo), r.self, r.input, Append(acc, r.ret.val.val))
            IN  IF todo = <<>> THEN [ret |-> Ok(acc), self |-> seq, input |-> rest]
                ELSE got(next_element_seed(seq, Head(todo), rest))
        placed(r) ==
            IF ty.k = "struct"
            THEN map(r, V(ty.k, 0, 0, ty.s,
                          [i \in 1 .. Len(ty.items) |-> V("field", 0, 0, names[i], <<r.ret.val[i]>>)]))
            ELSE made(r)
        \* a Vec or a map: elements or entries until the access has no more
        RECURSIVE repeat(_, _, _)
        repeat(seq, rest, acc) ==
            LET got(r) ==
                    CASE ~r.ret.ok -> r
                      [] ~r.ret.val.some -> [r EXCEPT !.ret = Ok(acc)]
                      [] OTHER -> repeat(r.self, r.input, Append(acc, r.ret.val.val))
            IN  got(IF ty.k = "seq" THEN next_element_seed(seq, ty.items[1], rest)
                    ELSE next_entry_seed(seq, ty.items[1].items[1], ty.items[1].items[2], rest))
        \* a struct written as a map: keys as field identifiers, each with
        \* its value, unknown fields ignored
        RECURSIVE fields(_, _, _)
        fields(map_, rest, got) ==
            LET valued(name, known, v) ==
                    IF ~v.ret.ok THEN v
                    ELSE fields(v.self, v.input,
                                IF known THEN got @@ (name :> V("field", 0, 0, name, <<v.ret.val>>))
                                ELSE got)
                keyed(k) ==
                    LET name == k.ret.val.val.s
                        known == \E i \in 1 .. Len(names) : names[i] = name
                    IN  CASE ~k.ret.ok -> k
                          [] ~k.ret.val.some ->
                               [k EXCEPT !.ret = IF DOMAIN got = {names[i] : i \in 1 .. Len(names)}
                                                 THEN Ok([i \in 1 .. Len(names) |-> got[names[i]]])
                                                 ELSE Err(custom("missing field"))]
                          [] name \in DOMAIN got -> [k EXCEPT !.ret = Err(custom("duplicate field"))]
                          [] OTHER ->
                               valued(name, known,
                                      next_value_seed(k.self, IF known THEN ty.items[typeof(name)].items[1]
                                                              ELSE V("ignored_any", 0, 0, "", <<>>),
                                                      k.input))
            IN  keyed(next_key_seed(map_, Identifier(0, names), rest))
        \* an enum: the variant's identifier, then the variant's content
        enum ==
            LET body == V(IF ty.k = "tuple_variant" THEN "tuple" ELSE "struct", 0, 0, "", ty.items)
                of == CASE ty.k = "unit_variant" -> ty
                        [] ty.k = "newtype_variant" -> ty.items[1]
                        [] OTHER -> body
                content(n) == map(n, CASE ty.k = "unit_variant" -> <<>>
                                       [] ty.k = "newtype_variant" -> <<n.ret.val>>
                                       [] OTHER -> n.ret.val.items)
                chosen(id) == IF id.ret.ok
                              THEN made(content(variant(id.self, "dyn_" \o ty.k, of, id.input)))
                              ELSE id
            IN  chosen(variant_seed(arg, Identifier(1, <<ty.s>>), input))
    IN  CASE ty.k = "ignored_any" -> done(Ok(V("ignored_any", 0, 0, "", <<>>)))
          [] ty.k = "bool" /\ cb = "visit_bool" -> done(Ok(arg))
          [] ty.k = "u8" /\ cb \in {"visit_u64", "visit_i64"} -> int(0, 2 ^ 8 - 1)
          [] ty.k = "i32" /\ cb \in {"visit_u64", "visit_i64"} -> int(0 - 2147483647 - 1, 2147483647)
          [] ty.k = "f32" /\ cb = "visit_f64" -> done(Ok(V("f32", arg.n, arg.e, "", <<>>)))
          [] ty.k = "f32" /\ cb \in {"visit_u64", "visit_i64"} -> done(Ok(V("f32", 10 * arg.n, 1, "", <<>>)))
          [] ty.k = "char" /\ cb = "visit_str" ->
               IF Len(arg.s) = 1 THEN done(Ok(V("char", 0, 0, arg.s, <<>>)))
               ELSE custom_("invalid value")
          [] ty.k = "str" /\ cb = "visit_str" -> done(Ok(arg))
          [] ty.k = "identifier" /\ cb = "visit_str" ->
               IF \E i \in 1 .. Len(ty.items) : ty.items[i] = arg \/ ty.n = 0 THEN done(Ok(arg))
               ELSE custom_("unknown variant")
          [] ty.k \in {"unit", "unit_struct"} /\ cb = "visit_unit" -> done(Ok(V(ty.k, 0, 0, ty.s, <<>>)))
          [] ty.k = "option" /\ cb \in {"visit_none", "visit_unit"} ->
               done(Ok(V("none", 0, 0, "", ty.items)))
          [] (ty.k = "option" /\ cb = "visit_some")
             \/ (ty.k = "newtype_struct" /\ cb = "visit_newtype_struct") ->
               held(Deserialize(ty.items[1], arg, input))
          [] ty.k \in {"tuple", "tuple_struct", "newtype_struct", "struct"} /\ cb = "visit_seq" ->
               placed(elements(tys, arg, input, <<>>))
          [] ty.k \in {"seq", "map"} /\ cb = "visit_" \o ty.k -> made(repeat(arg, input, <<>>))
          [] ty.k = "struct" /\ cb = "visit_map" -> made(fields(arg, input, <<>>))
          [] ty.k \in {"unit_variant", "newtype_variant", "tuple_variant", "struct_variant"}
             /\ cb = "visit_enum" -> enum
          [] OTHER -> custom_("invalid type")

\* deserialize for &mut dyn DeserializeSeed, as the codec calls it on the
\* adapter `self` with its deserializer de, which the method wraps. The seed
\* in the adapter is PhantomData<T>, whose deserialize is T::deserialize.
Seed(self, de, input) ==
    LET row == CHOOSE row \in SeedRows : TRUE
        nested == InplaceDeserializer("Deserializer", de)
        store(t) ==
            LET result == deserialize(self, row, t.ret, t.self)
            IN  [input |-> t.input, self |-> result.self, ret |-> result.ret]
    IN  store(IF self.tag = row.need THEN Deserialize(self.val, nested, input)
              ELSE [ret |-> Ok("-"), self |-> nested, input |-> input])

\* next_element_seed, next_key_seed, next_value_seed and next_entry_seed of
\* the reference textual codec's accesses (`row`), with &mut dyn
\* DeserializeSeed arguments: the separator, then the seed on the value.
json_next(access, input, row, seed_, vseed_) ==
    LET s == ws(input)
        end == IF row.trait = "SeqAccess" THEN "]" ELSE "}"
        out(ret, rest, kseed, vseed__) ==
            [ret |-> ret, input |-> rest, access |-> [first |-> FALSE], seed |-> kseed, vseed |-> vseed__]
        fail(msg) == out(Err(msg), s, seed_, vseed_)
        valued(kseed, v) == out(IF v.ret.ok THEN Ok("Some") ELSE v.ret, v.input, kseed, v.self)
        value(kseed, vseed__, rest) ==
            IF ~StartsWith(ws(rest), ":") THEN out(Err("expected colon"), rest, kseed, vseed__)
            ELSE valued(kseed, Seed(vseed__, "json", Drop(ws(rest), 1)))
        keyed(e) ==
            CASE ~e.ret.ok -> out(e.ret, e.input, e.self, vseed_)
              [] row.name = "dyn_next_entry" -> value(e.self, vseed_, e.input)
              [] OTHER -> out(Ok("Some"), e.input, e.self, vseed_)
        item(rest) ==
            IF row.trait = "MapAccess" /\ ~StartsWith(rest, "\"") THEN fail("key must be a string")
            ELSE keyed(Seed(seed_, IF row.trait = "SeqAccess" THEN "json" ELSE "key", rest))
    IN  CASE row.name = "dyn_next_value" -> value(seed_, seed_, s)
          [] StartsWith(s, end) -> [out(Ok("None"), s, seed_, vseed_) EXCEPT !.access = access]
          [] ~access.first /\ ~StartsWith(s, ",") -> fail("expected comma")
          [] ~access.first /\ StartsWith(ws(Tail(s)), end) -> fail("trailing comma")
          [] OTHER -> item(IF access.first THEN s ELSE ws(Tail(s)))

\* next_element_seed for &mut dyn SeqAccess:
\*   let mut seed = InplaceDeserializeSeed::DeserializeSeed(seed);
\*   let result = self.dyn_next_element(&mut seed);
\*   if let Value(value) = seed { Ok(Some(value)) }
\*   else if let Ok(None) = result { Ok(None) }
\*   else { Err(seed.expect_err(result)) }
next_element_seed(self, ty, input) ==
    LET row == CHOOSE row \in SeqRows : TRUE
        seed_ == InplaceDeserializeSeed("DeserializeSeed", ty)
        match(c) ==
            LET result == dyn_next_element(self, row, c.ret)
            IN  [input |-> c.input,
                 self |-> IF result.ret.ok THEN InplaceSeqAccess("SeqAccess", c.access) ELSE result.self,
                 ret |-> IF c.seed.tag = "Value" THEN Ok(Some(c.seed.val))
                         ELSE IF result.ret = Ok("None") THEN Ok(None)
                         ELSE Err(expect_err(result.ret))]
    IN  match(IF self.tag = row.need THEN json_next(self.val, input, row, seed_, seed_)
              ELSE [ret |-> Ok("-"), input |-> input, access |-> self.val, seed |-> seed_])

\* next_key_seed for &mut dyn MapAccess, as next_element_seed.
next_key_seed(self, ty, input) ==
    LET row == CHOOSE row \in MapRows : row.name = "dyn_next_key"
        seed_ == InplaceDeserializeSeed("DeserializeSeed", ty)
        match(c) ==
            LET result == dyn_next(self, row, c.ret)
            IN  [input |-> c.input,
                 self |-> IF result.ret.ok THEN InplaceMapAccess("MapAccess", c.access) ELSE result.self,
                 ret |-> IF c.seed.tag = "Value" THEN Ok(Some(c.seed.val))
                         ELSE IF result.ret = Ok("None") THEN Ok(None)
                         ELSE Err(expect_err(result.ret))]
    IN  match(IF self.tag = row.need THEN json_next(self.val, input, row, seed_, seed_)
              ELSE [ret |-> Ok("-"), input |-> input, access |-> self.val, seed |-> seed_])

\* next_value_seed for &mut dyn MapAccess:
\*   match seed { Value(value) => Ok(value), seed => Err(seed.expect_err(result)) }
next_value_seed(self, ty, input) ==
    LET row == CHOOSE row \in MapRows : row.name = "dyn_next_value"
        seed_ == InplaceDeserializeSeed("DeserializeSeed", ty)
        match(c) ==
            LET result == dyn_next(self, row, c.ret)
            IN  [input |-> c.input,
                 self |-> IF result.ret.ok THEN InplaceMapAccess("MapAccess", c.access) ELSE result.self,
                 ret |-> IF c.vseed.tag = "Value" THEN Ok(c.vseed.val) ELSE Err(expect_err(result.ret))]
    IN  match(IF self.tag = row.need THEN json_next(self.val, input, row, seed_, seed_)
              ELSE [ret |-> Ok("-"), input |-> input, access |-> self.val, vseed |-> seed_])

\* next_entry_seed for &mut dyn MapAccess:
\*   if let Value(key) = kseed && let Value(value) = vseed { Ok(Some((key, value))) }
\*   else if let Ok(None) = result { Ok(None) }
\*   else { Err(vseed.expect_err(result)) }
next_entry_seed(self, kty, vty, input) ==
    LET row == CHOOSE row \in MapRows : row.name = "dyn_next_entry"
        kseed == InplaceDeserializeSeed("DeserializeSeed", kty)
        vseed_ == InplaceDeserializeSeed("DeserializeSeed", vty)
        match(c) ==
            LET result == dyn_next(self, row, c.ret)
            IN  [input |-> c.input,
                 self |-> IF result.ret.ok THEN InplaceMapAccess("MapAccess", c.access) ELSE result.self,
                 ret |-> IF c.seed.tag = "Value" /\ c.vseed.tag = "Value"
                         THEN Ok(Some(V("entry", 0, 0, "", <<c.seed.val, c.vseed.val>>)))
                         ELSE IF result.ret = Ok("None") THEN Ok(None)
                         ELSE Err(expect_err(result.ret))]
    IN  match(IF self.tag = row.need THEN json_next(self.val, input, row, kseed, vseed_)
              ELSE [ret |-> Ok("-"), input |-> input, access |-> self.val, seed |-> kseed,
                    vseed |-> vseed_])

\* variant_seed of the reference textual codec's enum access (`row` in
\* EnumRows) and the four methods of its variant access (`row` in
\* VariantRows), with the &mut dyn DeserializeSeed or &mut dyn Visitor
\* `arg`. The access is "VariantAccess" for {"Name":..} and
\* "UnitVariantAccess" for "Name".
json_variant(access, input, row, arg) ==
    LET out(r) == [input |-> r.input, arg |-> r.self,
                   ret |-> IF r.ret.ok /\ row \in EnumRows THEN Ok(access) ELSE r.ret]
        fail(msg) == [ret |-> Err(msg), input |-> input, arg |-> arg]
        \* the name, or the content of a newtype variant; a colon after the
        \* name in {"Name":..}
        seeded(id) ==
            CASE ~id.ret.ok \/ row.name = "dyn_newtype_variant" \/ access = "UnitVariantAccess" -> out(id)
              [] StartsWith(ws(id.input), ":") -> out([id EXCEPT !.input = Drop(ws(@), 1)])
              [] OTHER -> out([id EXCEPT !.ret = Err("expected colon")])
        hinted(r) == [input |-> r.input, ret |-> r.ret, arg |-> r.visitor]
        hint == IF row.name = "dyn_tuple_variant" THEN "dyn_deserialize_seq" ELSE "dyn_deserialize_struct"
    IN  CASE row.name = "dyn_variant_seed" -> seeded(Seed(arg, "json", input))
          [] row.name = "dyn_unit_variant" /\ access = "UnitVariantAccess" ->
               [ret |-> Ok("unit"), input |-> input, arg |-> arg]
          [] access = "UnitVariantAccess" -> fail("invalid type")
          [] row.name = "dyn_unit_variant" ->
               IF StartsWith(ws(input), "null")
               THEN [ret |-> Ok("unit"), input |-> Drop(ws(input), 4), arg |-> arg]
               ELSE fail("invalid type")
          [] row.name = "dyn_newtype_variant" -> seeded(Seed(arg, "json", input))
          [] row.name \in {"dyn_tuple_variant", "dyn_struct_variant"} ->
               hinted(json_deserialize("json", input, CHOOSE h \in HintRows : h.name = hint, arg))

\* variant_seed for &mut dyn EnumAccess; the variant access it returns is
\* the same adapter:
\*   let mut seed = InplaceDeserializeSeed::DeserializeSeed(seed);
\*   let result = self.dyn_variant_seed(&mut seed);
\*   match result { Ok(((), variant)) => match seed {
\*                      Value(value) => Ok((value, variant)), _ => unreachable!() },
\*                  Err(error) => Err(DeserializeError::from(error)) }
variant_seed(self, ty, input) ==
    LET row == CHOOSE row \in EnumRows : TRUE
        seed_ == InplaceDeserializeSeed("DeserializeSeed", ty)
        match(c) ==
            LET result == dyn_variant_seed(self, row, c.ret)
            IN  [input |-> c.input, self |-> result.self,
                 ret |-> IF ~result.ret.ok THEN Err(from(result.ret.val))
                         ELSE IF c.arg.tag = "Value" THEN Ok(c.arg.val)
                         ELSE Err("unreachable!")]
    IN  match(IF self.tag = row.need THEN json_variant(self.val, input, row, seed_)
              ELSE [ret |-> Ok("-"), input |-> input, arg |-> seed_])

\* unit_variant, newtype_variant_seed, tuple_variant and struct_variant for
\* &mut dyn VariantAccess, `name` the facade method and ty the type of the
\* seed or of the visitor:
\*   self.dyn_unit_variant().map_err(DeserializeError::from)
\*   match seed { Value(value) => Ok(value), seed => Err(seed.expect_err(result)) }
\*   match visitor { Value(value) => Ok(value), visitor => Err(visitor.expect_err(result)) }
variant(self, name, ty, input) ==
    LET row == CHOOSE row \in VariantRows : row.name = name
        arg == IF name = "dyn_newtype_variant" THEN InplaceDeserializeSeed("DeserializeSeed", ty)
               ELSE InplaceVisitor("Visitor", ty)
        match(c) ==
            LET result == dyn_variant(self, row, c.ret)
            IN  [input |-> c.input, self |-> result.self,
                 ret |-> IF name = "dyn_unit_variant"
                         THEN (IF result.ret.ok THEN result.ret ELSE Err(from(result.ret.val)))
                         ELSE IF c.arg.tag = "Value" THEN Ok(c.arg.val)
                         ELSE Err(expect_err(result.ret))]
    IN  match(IF self.tag = row.need THEN json_variant(self.val, input, row, arg)
              ELSE [ret |-> Ok("-"), input |-> input, arg |-> arg])

\* ------------------------------------------------------------- Spec: state
VARIABLES
    ser,        \* the InplaceSerializer
    codec,      \* the calls the wrapped codec has received, in order
    reported,   \* the error the wrapped codec has reported, "-" if none
    call,       \* the last facade call: [trait, name, arg]
    ret,        \* the Status the last facade call returned, "Ok" on success
    ans,        \* what the codec answered to the last call, <<>> if it was not called
    pre,        \* the InplaceSerializer before the last facade call
    proto,      \* where the calls made so far stand in the protocol
    scen,       \* the Consumer adapter under call, "-" on the Producer side
    de,         \* an InplaceDeserializer
    vis,        \* an InplaceVisitor
    seen,       \* the callbacks the concrete visitor of vis has received
    seed,       \* an InplaceDeserializeSeed
    vseed,      \* a second one, the value seed of an entry
    seq,        \* an InplaceSeqAccess
    map,        \* an InplaceMapAccess
    enm,        \* an InplaceEnumAccess
    dcall,      \* the last Consumer facade call: [trait, name]
    dret,       \* the Result the last Consumer facade call returned
    dans,       \* the call the wrapped object received in it, <<>> if none
    dpre,       \* the adapter under call before the last call
    stage,      \* of a whole value: "start", "produced", "failed", "input", "consumed"
    via,        \* where its text is from: "codec", "facade" or "input"
    value,      \* the value to produce
    ty,         \* the type to consume the text as
    text,       \* the text produced, or given
    calls,      \* the methods the reference codec has received producing it
    back,       \* the value consumed, or the error of the whole operation
    cross,      \* the last crossing from a dyn call back to the wrapped codec
    report      \* a failure a visitor reports, and the errors made of it

pvars == <<ser, codec, reported, call, ret, ans, pre, proto>>
dvars == <<scen, de, vis, seen, seed, vseed, seq, map, enm, dcall, dret, dans, dpre>>
evars == <<stage, via, value, ty, text, calls, back>>
xvars == <<cross, report>>
vars == <<pvars, dvars, evars, xvars>>

NoCall == [trait |-> "-", name |-> "-", arg |-> 0]

\* The arguments of a call: a length for an open call (Option<usize> for a
\* sequence or a map), a value for a scalar call; the &dyn Serialize of an
\* element call is one opaque reference here.
ArgsOf(row) ==
    IF row \in OpenRows
    THEN (0 .. MaxLen) \cup
         (IF row.name \in {"dyn_serialize_seq", "dyn_serialize_map"} THEN {NoLen} ELSE {})
    ELSE IF row \in TerminalRows THEN Values
    ELSE {0}

\* The arguments to consider for a call on `self`: the else branch of every
\* method ignores its arguments, so a refused call needs one of them.
Inputs(self, row) ==
    IF self.tag = row.need THEN ArgsOf(row) ELSE {0}

\* The protocol of section 4.1 as an automaton over the calls alone:
\*   start  no call yet               open   one open call, then its elements
\*   ended  the open sequence ended   done   one terminal Serializer call
\*   early  only composite calls, and no open before them
\*   mixed  a composite call of another kind than the open one
\*   after  only composite calls since the end
\*   off    any other sequence
Proto(st, kind) == [st |-> st, kind |-> kind]
Start == Proto("start", "-")
ProtoNext(p, row) ==
    IF row \in CompositeRows
    THEN CASE p.st \in {"start", "early"} -> Proto("early", "-")
           [] p.st \in {"ended", "done", "after"} -> Proto("after", "-")
           [] p.st = "open" /\ row.trait # p.kind -> Proto("mixed", "-")
           [] p.st = "open" /\ row.trait = p.kind ->
                IF row \in EndRows THEN Proto("ended", p.kind) ELSE p
           [] OTHER -> Proto("off", "-")
    ELSE CASE p.st = "start" /\ row \in OpenRows -> Proto("open", row.f)
           [] p.st = "start" /\ row \in TerminalRows -> Proto("done", "-")
           [] OTHER -> Proto("off", "-")

\* The Consumer side at rest.
DIdle ==
    /\ scen = "-"
    /\ de = Default
    /\ vis = Default
    /\ seen = <<>>
    /\ seed = Default
    /\ vseed = Default
    /\ seq = Default
    /\ map = Default
    /\ enm = Default
    /\ dcall = [trait |-> "-", name |-> "-"]
    /\ dret = Ok("-")
    /\ dans = <<>>
    /\ dpre = Default

\* No whole value under way.
NoValue == V("-", 0, 0, "", <<>>)
EIdle ==
    /\ stage = "-"
    /\ via = "-"
    /\ value = NoValue
    /\ ty = NoValue
    /\ text = ""
    /\ calls = <<>>
    /\ back = NoValue

\* No crossing made, no failure reported.
NoCross == [at |-> "-", nested |-> Default, dyn |-> Ok("-"), ret |-> Ok("-")]
NoReport ==
    [path |-> "-", field |-> "", expected |-> <<>>, kind |-> NoKind, held |-> "-",
     shown |-> "", concrete |-> ""]
XIdle ==
    /\ cross = NoCross
    /\ report = NoReport

PInit ==
    /\ ser = new("codec")
    /\ codec = <<>>
    /\ reported = "-"
    /\ call = NoCall
    /\ ret = "-"
    /\ ans = <<>>
    /\ pre = Default
    /\ proto = Start

Init == PInit /\ DIdle /\ EIdle /\ XIdle

\* The effect of one facade call on the whole state.
Apply(row, v, r, res) ==
    /\ ser' = res.self
    /\ ret' = res.ret
    /\ codec' = IF res.invoked THEN Append(codec, codec_call(row, v)) ELSE codec
    /\ reported' = IF res.invoked /\ ~r.ok THEN r.val ELSE reported
    /\ ans' = IF res.invoked THEN <<r>> ELSE <<>>
    /\ call' = [trait |-> row.trait, name |-> row.name, arg |-> v]
    /\ pre' = ser
    /\ proto' = ProtoNext(proto, row)
    /\ UNCHANGED <<dvars, evars, xvars>>

\* A scalar, unit, newtype, collect_str or open call.
SerializerCall ==
    \E row \in SerializerRows : \E v \in Inputs(ser, row) : \E r \in Answers(ser, row) :
        Apply(row, v, r, dyn_serialize(ser, row, r))

\* An element, field, key, value, entry or skip-field call.
ElementCall ==
    \E row \in ElementRows : \E v \in Inputs(ser, row) : \E r \in Answers(ser, row) :
        /\ ser.tag = row.need => Len(codec) <= MaxElems
        /\ Apply(row, v, r, dyn_serialize_element(ser, row, r))

\* An end call.
EndCall ==
    \E row \in EndRows : \E r \in Answers(ser, row) :
        Apply(row, 0, r, dyn_end(ser, row, r))

Next == SerializerCall \/ ElementCall \/ EndCall

Spec == Init /\ [][Next]_vars

\* ---------------------------------------------------------- SpecDe: state
\* What a concrete visitor may answer to a callback: a value, a custom
\* error, or the status a nested dynamic call has returned to it.
VisitorAnswers ==
    {Ok(v) : v \in Produced} \cup {Err(custom(m)) : m \in Messages} \cup {Err(from("Error"))}

\* The answers to consider for a callback on `self`: a refused callback does
\* not reach the concrete visitor.
CallbackAnswers(self) ==
    IF self.tag = "Visitor" THEN VisitorAnswers ELSE {Ok("v1")}

\* The adapter of a callback's nested object when the dyn call returns: it
\* has kept an error of the nested object, or it has not.
NestedAfter(row) ==
    IF row.arg = "-" THEN {Default}
    ELSE {Default} \cup {[tag |-> "Error", val |-> e] : e \in Errors}

\* What the wrapped codec does with a hint: it fails before it looks at the
\* visitor (post), or it routes one callback (vrow) into the visitor, which the
\* concrete visitor answers with cb, and answers post if the callback
\* succeeded. A visitor is consumed by its callback, so a codec has at most one
\* callback to route, and no value to answer with unless the callback succeeded.
Behaviour(routes, vrow, cb, nested, post) ==
    [routes |-> routes, vrow |-> vrow, cb |-> cb, nested |-> nested, post |-> post]
NoRow == CHOOSE row \in VisitRows : row.name = "dyn_visit_unit"

\* The callbacks to consider on `self`: a refused callback has the same effect
\* whichever it is, but for the nested object it carries.
Callbacks(self) ==
    IF self.tag = "Visitor" THEN VisitRows
    ELSE {row \in VisitRows : row.name \in {"dyn_visit_unit", "dyn_visit_seq"}}

Behaviours(visitor) ==
    {Behaviour(FALSE, NoRow, Ok("v1"), Default, Err(e)) : e \in Errors} \cup
    {Behaviour(TRUE, b[1], b[2], b[3], b[4]) :
        b \in UNION {{<<vrow, cb, nested, post>> :
                        cb \in CallbackAnswers(visitor),
                        nested \in NestedAfter(vrow),
                        post \in {Ok("unit")} \cup {Err(e) : e \in Errors}} :
                     vrow \in Callbacks(visitor)}}

\* de.deserialize_x(visitor) of the wrapped codec on a &mut dyn Visitor.
codec_deserialize(b, visitor) ==
    IF b.routes
    THEN LET v == visit(visitor, b.vrow, b.cb, b.nested)
         IN  [visitor |-> v.self, invoked |-> v.invoked,
              ret |-> IF v.ret.ok THEN b.post ELSE v.ret,
              cross |-> [at |-> b.vrow.codec, nested |-> b.nested,
                         dyn |-> dyn_visit(visitor, b.vrow, b.cb).ret, ret |-> v.ret]]
    ELSE [visitor |-> visitor, invoked |-> FALSE, ret |-> b.post, cross |-> NoCross]

\* The behaviours to consider for a hint on `self`: a refused hint does not
\* reach the codec.
HintBehaviours(self, visitor) ==
    IF self.tag = "Deserializer" THEN Behaviours(visitor)
    ELSE {Behaviour(FALSE, NoRow, Ok("v1"), Default, Err("e1"))}

\* What a concrete seed may answer to deserialize: as a concrete visitor.
SeedAnswers ==
    {Ok(v) : v \in Produced} \cup {Err(custom(m)) : m \in Messages} \cup {Err(from("Error"))}

\* The answers to consider for a seed call on `self`: a refused call does not
\* reach the concrete seed.
SeedCallAnswers(self) ==
    IF self.tag = "DeserializeSeed" THEN SeedAnswers ELSE {Ok("v1")}

SeedRow == CHOOSE row \in SeedRows : TRUE
FreshSeed == InplaceDeserializeSeed("DeserializeSeed", "seed")

\* What a wrapped access may answer without handing anything to a seed: a
\* failure, the end of the items where the method returns an Option, success
\* where the method takes no seed and no visitor.
EndPosts(row) ==
    {Err(e) : e \in Errors} \cup
    (IF row.name \in {"dyn_next_element", "dyn_next_key", "dyn_next_entry"}
     THEN {Ok("None")}
     ELSE IF row.name = "dyn_unit_variant" THEN {Ok("unit")} ELSE {})

\* What a wrapped access answers once the seed or the visitor has succeeded.
ItemPost(row) ==
    IF row.name \in {"dyn_next_element", "dyn_next_key", "dyn_next_entry"} THEN "Some"
    ELSE IF row.name = "dyn_variant_seed" THEN "variant"
    ELSE "unit"

\* What a wrapped access does with a seed: it answers post without touching
\* the seed, or it hands the seed one item, which the concrete seed answers
\* with cb, and answers post if that succeeded. A seed is consumed by
\* deserialize, as a visitor is by its callback.
SeedBehaviours(row, seed_) ==
    {Behaviour(FALSE, SeedRow, Ok("v1"), Default, post) : post \in EndPosts(row)} \cup
    {Behaviour(TRUE, SeedRow, b[1], b[2], b[3]) :
        b \in {<<cb, nested, post>> :
                 cb \in SeedCallAnswers(seed_),
                 nested \in {Default} \cup {[tag |-> "Error", val |-> e] : e \in Errors},
                 post \in {Ok(ItemPost(row))} \cup {Err(e) : e \in Errors}}}

\* access.next_x_seed(seed), variant_seed(seed), newtype_variant_seed(seed) of
\* the wrapped access on a &mut dyn DeserializeSeed.
access_seed(b, seed_) ==
    IF b.routes
    THEN LET s == deserialize(seed_, b.vrow, b.cb, b.nested)
         IN  [seed |-> s.self, invoked |-> s.invoked,
              ret |-> IF s.ret.ok THEN b.post ELSE s.ret,
              cross |-> [at |-> b.vrow.codec, nested |-> b.nested,
                         dyn |-> dyn_deserialize(seed_, b.vrow, b.cb).ret, ret |-> s.ret]]
    ELSE [seed |-> seed_, invoked |-> FALSE, ret |-> b.post, cross |-> NoCross]

\* access.next_entry_seed(kseed, vseed): the key as next_key_seed, and the
\* value as next_value_seed if there was a key.
access_entry(bk, bv, kseed, vseed_) ==
    LET k == access_seed(bk, kseed)
        v == access_seed(bv, vseed_)
    IN  IF k.ret = Ok("Some")
        THEN [seed |-> k.seed, vseed |-> v.seed, cross |-> v.cross,
              ret |-> IF v.ret.ok THEN Ok("Some") ELSE v.ret]
        ELSE [seed |-> k.seed, vseed |-> vseed_, cross |-> k.cross, ret |-> k.ret]

\* The behaviours to consider for a call on `self`: a refused call does not
\* reach the wrapped access.
AccessBehaviours(self, row, seed_) ==
    IF self.tag = row.need
    THEN IF row.name = "dyn_unit_variant"
         THEN {b \in SeedBehaviours(row, seed_) : ~b.routes}
         ELSE SeedBehaviours(row, seed_)
    ELSE {Behaviour(FALSE, SeedRow, Ok("v1"), Default, Err("e1"))}

Scenarios == {"Deserializer", "DeserializeSeed", "SeqAccess", "MapAccess", "EnumAccess"}

DInit ==
    /\ scen \in Scenarios
    /\ de = InplaceDeserializer("Deserializer", "codec")
    /\ vis = InplaceVisitor("Visitor", "visitor")
    /\ seen = <<>>
    /\ seed = FreshSeed
    /\ vseed = FreshSeed
    /\ seq = InplaceSeqAccess("SeqAccess", "access")
    /\ map = InplaceMapAccess("MapAccess", "access")
    /\ enm = InplaceEnumAccess("EnumAccess", "access")
    /\ dcall = [trait |-> "-", name |-> "-"]
    /\ dret = Ok("-")
    /\ dans = <<>>
    /\ dpre = Default

\* The effect of one Consumer facade call on the ghost state: res is the
\* result of the method, op and r the concrete call it made and its answer.
DApply(row, self, res, op, r) ==
    /\ dcall' = [trait |-> row.trait, name |-> row.name]
    /\ dret' = res.ret
    /\ dans' = IF res.invoked THEN <<[op |-> op, r |-> r]>> ELSE <<>>
    /\ dpre' = self
    /\ UNCHANGED <<evars, report>>

\* A hint call on de, handing it vis.
Hint ==
    /\ scen = "Deserializer"
    /\ \E row \in HintRows : \E b \in HintBehaviours(de, vis) :
         LET c == codec_deserialize(b, vis)
             d == dyn_deserialize_hint(de, row, c.ret)
         IN  /\ de' = d.self
             /\ vis' = IF d.invoked THEN c.visitor ELSE vis
             /\ seen' = IF d.invoked /\ c.invoked THEN Append(seen, b.vrow.codec) ELSE seen
             /\ DApply(row, de, d, row.codec, c.ret)
             /\ cross' = IF d.invoked THEN c.cross ELSE NoCross
    /\ UNCHANGED <<pvars, scen, seed, vseed, seq, map, enm>>

\* A callback on vis, made directly.
Visit ==
    /\ scen = "Deserializer"
    /\ \E row \in VisitRows : \E r \in CallbackAnswers(vis) :
         LET v == dyn_visit(vis, row, r)
         IN  /\ vis' = v.self
             /\ seen' = IF v.invoked THEN Append(seen, row.codec) ELSE seen
             /\ DApply(row, vis, v, row.codec, r)
             /\ cross' = NoCross
    /\ UNCHANGED <<pvars, scen, de, seed, vseed, seq, map, enm>>

\* dyn_deserialize on seed, made directly.
SeedCall ==
    /\ scen = "DeserializeSeed"
    /\ \E row \in SeedRows : \E r \in SeedCallAnswers(seed) :
         LET s == dyn_deserialize(seed, row, r)
         IN  /\ seed' = s.self
             /\ DApply(row, seed, s, row.codec, r)
             /\ cross' = NoCross
    /\ UNCHANGED <<pvars, scen, de, vis, seen, vseed, seq, map, enm>>

\* dyn_next_element on seq, handing it seed or a fresh seed.
SeqNext ==
    /\ scen = "SeqAccess"
    /\ \E row \in SeqRows : \E s \in {seed, FreshSeed} :
       \E b \in AccessBehaviours(seq, row, s) :
         LET c == access_seed(b, s)
             d == dyn_next_element(seq, row, c.ret)
         IN  /\ seq' = d.self
             /\ seed' = IF d.invoked THEN c.seed ELSE s
             /\ DApply(row, seq, d, row.codec, c.ret)
             /\ cross' = IF d.invoked THEN c.cross ELSE NoCross
    /\ UNCHANGED <<pvars, scen, de, vis, seen, vseed, map, enm>>

\* dyn_next_key or dyn_next_value on map.
MapNext ==
    /\ scen = "MapAccess"
    /\ \E row \in {r \in MapRows : r.name # "dyn_next_entry"} : \E s \in {seed, FreshSeed} :
       \E b \in AccessBehaviours(map, row, s) :
         LET c == access_seed(b, s)
             d == dyn_next(map, row, c.ret)
         IN  /\ map' = d.self
             /\ seed' = IF d.invoked THEN c.seed ELSE s
             /\ DApply(row, map, d, row.codec, c.ret)
             /\ cross' = IF d.invoked THEN c.cross ELSE NoCross
    /\ UNCHANGED <<pvars, scen, de, vis, seen, vseed, seq, enm>>

\* dyn_next_entry on map, with a key seed and a value seed.
MapEntry ==
    /\ scen = "MapAccess"
    /\ \E row \in {r \in MapRows : r.name = "dyn_next_entry"} :
       \E s \in {seed, FreshSeed} : \E bk \in AccessBehaviours(map, row, s) :
       \E bv \in {b \in AccessBehaviours(map, row, vseed) : b.post # Ok("None")} :
         LET c == access_entry(bk, bv, s, vseed)
             d == dyn_next(map, row, c.ret)
         IN  /\ map' = d.self
             /\ seed' = IF d.invoked THEN c.seed ELSE s
             /\ vseed' = IF d.invoked THEN c.vseed ELSE vseed
             /\ DApply(row, map, d, row.codec, c.ret)
             /\ cross' = IF d.invoked THEN c.cross ELSE NoCross
    /\ UNCHANGED <<pvars, scen, de, vis, seen, seq, enm>>

\* dyn_variant_seed on enm.
VariantSeed ==
    /\ scen = "EnumAccess"
    /\ \E row \in EnumRows : \E s \in {seed, FreshSeed} :
       \E b \in AccessBehaviours(enm, row, s) :
         LET c == access_seed(b, s)
             d == dyn_variant_seed(enm, row, c.ret)
         IN  /\ enm' = d.self
             /\ seed' = IF d.invoked THEN c.seed ELSE s
             /\ DApply(row, enm, d, row.codec, c.ret)
             /\ cross' = IF d.invoked THEN c.cross ELSE NoCross
    /\ UNCHANGED <<pvars, scen, de, vis, seen, vseed, seq, map>>

\* dyn_unit_variant or dyn_newtype_variant on enm.
Variant ==
    /\ scen = "EnumAccess"
    /\ \E row \in {r \in VariantRows : r.name \in {"dyn_unit_variant", "dyn_newtype_variant"}} :
       \E s \in {seed, FreshSeed} : \E b \in AccessBehaviours(enm, row, s) :
         LET c == access_seed(b, s)
             d == dyn_variant(enm, row, c.ret)
         IN  /\ enm' = d.self
             /\ seed' = IF d.invoked THEN c.seed ELSE s
             /\ DApply(row, enm, d, row.codec, c.ret)
             /\ cross' = IF d.invoked THEN c.cross ELSE NoCross
    /\ UNCHANGED <<pvars, scen, de, vis, seen, vseed, seq, map>>

\* dyn_tuple_variant or dyn_struct_variant on enm, handing it vis.
VariantVisit ==
    /\ scen = "EnumAccess"
    /\ \E row \in {r \in VariantRows : r.name \in {"dyn_tuple_variant", "dyn_struct_variant"}} :
       \E b \in (IF enm.tag = row.need THEN Behaviours(vis)
                 ELSE {Behaviour(FALSE, NoRow, Ok("v1"), Default, Err("e1"))}) :
         LET c == codec_deserialize(b, vis)
             d == dyn_variant(enm, row, c.ret)
         IN  /\ enm' = d.self
             /\ vis' = IF d.invoked THEN c.visitor ELSE vis
             /\ seen' = IF d.invoked /\ c.invoked THEN Append(seen, b.vrow.codec) ELSE seen
             /\ DApply(row, enm, d, row.codec, c.ret)
             /\ cross' = IF d.invoked THEN c.cross ELSE NoCross
    /\ UNCHANGED <<pvars, scen, de, seed, vseed, seq, map>>

DNext ==
    \/ Hint \/ Visit \/ SeedCall \/ SeqNext \/ MapNext \/ MapEntry
    \/ VariantSeed \/ Variant \/ VariantVisit

InitDe == PInit /\ DInit /\ EIdle /\ XIdle

SpecDe == InitDe /\ [][DNext]_vars

\* ------------------------------------------------ Spec: whole values
\* How many parts the composites to produce have at most.
MaxItems == 2

\* The value without its &dyn Serialize wrappers.
RECURSIVE Plain(_)
Plain(v) ==
    IF v.k = "dyn" THEN Plain(v.items[1])
    ELSE IF v.k = "none" THEN v
    ELSE [v EXCEPT !.items = [i \in 1 .. Len(v.items) |-> Plain(v.items[i])]]

Scalar(k, n, e, s) == V(k, n, e, s, <<>>)
Unit == Scalar("unit", 0, 0, "")
Leaves ==
    { Scalar("bool", 1, 0, ""), Scalar("u8", 255, 0, ""), Scalar("i32", 0 - 12, 0, ""),
      Scalar("f32", 314, 2, ""), Scalar("char", 0, 0, "A"), Scalar("str", 0, 0, "Hello, world"),
      Scalar("str", 0, 0, "a\"b\\"), Unit }

Names == <<"x", "y", "z">>
Parts(n) == [1 .. n -> Leaves]
Fields(items) == [i \in 1 .. Len(items) |-> V("field", 0, 0, Names[i], <<items[i]>>)]
Entries(items) == [i \in 1 .. Len(items) |-> V("entry", 0, 0, "", <<Scalar("str", 0, 0, Names[i]), items[i]>>)]

\* The values of one level: every shape over the leaves.
Flat ==
    Leaves
    \cup {V("none", 0, 0, "", <<Shape(x)>>) : x \in Leaves}
    \cup {V(k, 0, 0, "", <<x>>) : k \in {"some"}, x \in Leaves}
    \cup {V("unit_struct", 0, 0, "UnitStruct", <<>>), V("unit_variant", 0, 0, "UnitVariant", <<>>)}
    \cup {V("newtype_struct", 0, 0, "NewtypeStruct", <<x>>) : x \in Leaves}
    \cup {V("newtype_variant", 0, 0, "NewtypeVariant", <<x>>) : x \in Leaves}
    \cup {V("seq", 0, 0, "", [i \in 1 .. n |-> x]) : n \in 0 .. MaxItems, x \in Leaves}
    \cup {V("map", 0, 0, "", Entries([i \in 1 .. n |-> x])) : n \in 0 .. MaxItems, x \in Leaves}
    \cup UNION { {V("tuple", 0, 0, "", p), V("tuple_struct", 0, 0, "TupleStruct", p),
                  V("tuple_variant", 0, 0, "TupleVariant", p),
                  V("struct", 0, 0, "Struct", Fields(p)),
                  V("struct_variant", 0, 0, "StructVariant", Fields(p))} :
                 p \in UNION {Parts(n) : n \in 1 .. MaxItems} }

\* Values of two levels: the values of the tests, each inside every shape
\* that holds a value.
Inner ==
    { V("some", 0, 0, "", <<Scalar("u8", 3, 0, "")>>),
      V("none", 0, 0, "", <<Scalar("u8", 0, 0, "")>>),
      V("unit_struct", 0, 0, "UnitStruct", <<>>),
      V("unit_variant", 0, 0, "UnitVariant", <<>>),
      V("newtype_struct", 0, 0, "NewtypeStruct", <<Scalar("bool", 0, 0, "")>>),
      V("newtype_variant", 0, 0, "NewtypeVariant", <<Scalar("bool", 0, 0, "")>>),
      V("seq", 0, 0, "", <<Scalar("i32", 3, 0, ""), Scalar("i32", 1, 0, ""), Scalar("i32", 4, 0, "")>>),
      V("tuple", 0, 0, "", <<Scalar("bool", 1, 0, ""), Unit, Scalar("u8", 255, 0, "")>>),
      V("tuple_variant", 0, 0, "TupleVariant", <<Scalar("bool", 1, 0, ""), Unit, Scalar("u8", 255, 0, "")>>),
      V("map", 0, 0, "", <<V("entry", 0, 0, "", <<Scalar("u8", 1, 0, ""), Scalar("f32", 20, 1, "")>>)>>),
      V("struct", 0, 0, "Struct", Fields(<<Scalar("u8", 1, 0, ""), Scalar("u8", 2, 0, "")>>)),
      V("struct_variant", 0, 0, "StructVariant", Fields(<<Scalar("bool", 1, 0, "")>>)) }
Nested ==
    UNION { {V("some", 0, 0, "", <<x>>),
             V("newtype_struct", 0, 0, "NewtypeStruct", <<x>>),
             V("newtype_variant", 0, 0, "NewtypeVariant", <<x>>),
             V("seq", 0, 0, "", <<x, x>>),
             V("tuple", 0, 0, "", <<x, Unit>>),
             V("tuple_variant", 0, 0, "TupleVariant", <<Unit, x>>),
             V("map", 0, 0, "", Entries(<<x>>)),
             V("map", 0, 0, "", <<V("entry", 0, 0, "", <<x, Unit>>)>>),
             V("struct", 0, 0, "Struct", Fields(<<x>>)),
             V("struct_variant", 0, 0, "StructVariant", Fields(<<Unit, x>>))} : x \in Inner }

\* Sequences of &dyn Serialize: an array (a tuple) or a Vec of references to
\* values of different types; the first is the example of the documentation.
DynItems == Leaves \cup {V("tuple", 0, 0, "", <<Scalar("bool", 1, 0, ""), Scalar("bool", 0, 0, "")>>)}
Heterogeneous ==
    V("tuple", 0, 0, "",
      <<Dyn(V("tuple", 0, 0, "", <<Scalar("bool", 1, 0, ""), Scalar("bool", 0, 0, "")>>)),
        Dyn(Scalar("u8", 100, 0, "")), Dyn(Scalar("str", 0, 0, "Hello, world")),
        Dyn(Scalar("f32", 314, 2, ""))>>)
DynSeqs ==
    {Heterogeneous, [Heterogeneous EXCEPT !.k = "seq"]}
    \cup {V(k, 0, 0, "", <<Dyn(x), Dyn(y)>>) : k \in {"seq", "tuple"}, x \in DynItems, y \in DynItems}

\* Values the reference codec refuses at depth one, two and three: a map whose
\* key is not a string, inside an option, a sequence, a tuple, a struct or a
\* &dyn Serialize.
Refused ==
    LET m == V("map", 0, 0, "", <<V("entry", 0, 0, "", <<Unit, Unit>>)>>)
        some(x) == V("some", 0, 0, "", <<x>>)
    IN  { m, some(m), some(some(m)), V("seq", 0, 0, "", <<Unit, m>>),
          V("tuple", 0, 0, "", <<Scalar("bool", 1, 0, ""), some(m)>>),
          V("struct", 0, 0, "Struct", Fields(<<Unit, some(m)>>)),
          V("newtype_struct", 0, 0, "NewtypeStruct", <<V("seq", 0, 0, "", <<some(m)>>)>>),
          V("seq", 0, 0, "", <<Dyn(Unit), Dyn(some(m))>>) }

Samples == Flat \cup Nested \cup DynSeqs \cup Refused

\* Texts to consume that no value above produces, each with the type to
\* consume it as.
XY(k) == V("struct", 0, 0, "", Fields(<<Scalar(k, 0, 0, ""), Scalar(k, 0, 0, "")>>))
Given ==
    ({XY("u8"), XY("i32")} \X
        {"{\"x\":1,\"y\":2}", "{\"y\":2,\"x\":1}", " { \"x\" : 1 , \"y\" : 2 } ", "{\"x\":1}",
         "{\"x\":1,\"z\":[{\"a\":\"]\"}],\"y\":2}", "{\"x\":1,\"x\":1,\"y\":2}", "[1,2]",
         "{\"x\":1,\"y\":2,}", "{\"x\":1,\"y\":true}", "null"})
    \cup ({Scalar("u8", 0, 0, ""), Scalar("i32", 0, 0, ""), Scalar("f32", 0, 0, "")} \X
        {"255", "256", "0", "-1", "2.5", "\"255\"", "", "x"})
    \cup ({Scalar("char", 0, 0, ""), Scalar("str", 0, 0, "")} \X
        {"\"A\"", "\"AB\"", "\"\"", "\"\\\"\"", "65", "\"A"})
    \cup ({V("tuple", 0, 0, "", <<Scalar("bool", 0, 0, ""), Unit, Scalar("u8", 0, 0, "")>>)} \X
        {"[true,null,255]", "[true,null,255,1]", "[true,null]", "[true null]", "[true,null,255"})
    \cup ({V("option", 0, 0, "", <<Unit>>), V("unit_variant", 0, 0, "UnitVariant", <<>>),
           V("newtype_variant", 0, 0, "NewtypeVariant", <<Unit>>)} \X
        {"null", "\"UnitVariant\"", "{\"UnitVariant\":null}", "{\"NewtypeVariant\":null}",
         "\"NewtypeVariant\"", "{\"Other\":null}"})

\* A value to produce, or a text to consume.
EInit ==
    /\ calls = <<>>
    /\ back = NoValue
    /\ \/ /\ stage = "start"
          /\ via = "-"
          /\ value \in Samples
          /\ ty = Shape(Plain(value))
          /\ text = ""
       \/ /\ stage = "input"
          /\ via = "input"
          /\ value = NoValue
          /\ \E g \in Given : ty = g[1] /\ text = g[2]

\* The outcome of a whole operation as a value.
Outcome(result) == IF result.ok THEN result.val ELSE V("Err", 0, 0, result.val, <<>>)

Produce(r, how) ==
    /\ stage' = IF r.ret.ok THEN "produced" ELSE "failed"
    /\ via' = how
    /\ text' = r.json.out
    /\ calls' = r.json.calls
    /\ back' = IF r.ret.ok THEN back ELSE Outcome(r.ret)
    /\ UNCHANGED <<codec, reported, call, ret, ans, pre, proto, dvars, value, ty, xvars>>

\* serde_json::to_string(&value): the value's serialize with the reference
\* codec itself.
ProduceNative ==
    /\ stage = "start"
    /\ Produce(Serialize(value, <<>>, JsonSerializer("", <<>>, FALSE, <<>>)), "codec")
    /\ UNCHANGED ser

\* value.serialize(&mut <dyn Serializer>::new(codec)): the value's serialize
\* with the facade over the bridge ser.
ProduceFacade ==
    /\ stage = "start"
    /\ LET r == Serialize(value, <<ser>>, JsonSerializer("", <<>>, FALSE, <<>>))
       IN  ser' = Head(r.chain) /\ Produce(r, "facade")

\* T::deserialize(&mut <dyn Deserializer>::new(codec)) on the text, the
\* type's deserialize with the facade over a new InplaceDeserializer.
Consume ==
    /\ stage \in {"produced", "input"}
    /\ LET r == Deserialize(ty, InplaceDeserializer("Deserializer", "json"), text)
       IN  de' = r.self /\ back' = Outcome(r.ret)
    /\ stage' = "consumed"
    /\ UNCHANGED <<pvars, scen, vis, seen, seed, vseed, seq, map, enm, dcall, dret, dans, dpre,
                   via, value, ty, text, calls, xvars>>

ENext == ProduceNative \/ ProduceFacade \/ Consume

InitE2E == PInit /\ DIdle /\ EInit /\ XIdle

SpecE2E == InitE2E /\ [][ENext]_vars

\* ------------------------------------------------------------------ claims
\* The wrong-stage Status values: one per facade kind.
WrongStage == SerializerError \ {"Error"}

\* C1: a facade call on an InplaceSerializer that is in Ok or Error returns a
\* wrong-stage Status, never success, and does not call the wrapped codec.
C1_InertOnceDone ==
    (call # NoCall /\ pre.tag \in {"Ok", "Error"}) =>
        /\ ret \in WrongStage
        /\ ret # "Ok"
        /\ ans = <<>>

C1_Witness ==
    /\ pre.tag = "Ok"
    /\ call.name = "dyn_serialize_bool"
    /\ ret = "Serializer"
    /\ Len(codec) = 1

\* C2: once the wrapped codec has reported an error, the InplaceSerializer
\* holds Error with that error through every later facade call.
C2_ErrorKept ==
    reported # "-" => ser = InplaceSerializer("Error", reported)

\* C3: one open call, then element calls of its kind, then its end succeed
\* at every step over a codec that does not fail, and end in Ok; a composite
\* call before the open, after the end or of another kind than the open one
\* returns the wrong-stage Status of its kind.
C3_Protocol ==
    /\ (proto.st = "open" /\ reported = "-") => (ret = "Ok" /\ ser.tag = proto.kind)
    /\ (proto.st = "ended" /\ reported = "-") => (ret = "Ok" /\ ser.tag = "Ok")
    /\ proto.st \in {"early", "after", "mixed"} =>
            (ret = call.trait /\ ret \in CompositeTags /\ ans = <<>>)

C3_Witness ==
    /\ proto = Proto("ended", "SerializeMap")
    /\ Len(codec) = 4
    /\ ser.tag = "Ok"
    /\ ret = "Ok"

\* The tag a Serializer-level call is to leave on success (section 4.3).
ExpectedTag(name) ==
    CASE name = "dyn_serialize_seq" -> "SerializeSeq"
      [] name = "dyn_serialize_tuple" -> "SerializeTuple"
      [] name = "dyn_serialize_tuple_struct" -> "SerializeTupleStruct"
      [] name = "dyn_serialize_tuple_variant" -> "SerializeTupleVariant"
      [] name = "dyn_serialize_map" -> "SerializeMap"
      [] name = "dyn_serialize_struct" -> "SerializeStruct"
      [] name = "dyn_serialize_struct_variant" -> "SerializeStructVariant"
      [] OTHER -> "Ok"

\* C4: a Serializer-level call on an InplaceSerializer in Serializer calls
\* the codec; on success the bridge holds the composite tag of the open call
\* or Ok; on failure it holds Error with the codec's error and the call
\* returns the generic Error Status.
C4_SerializerCallOutcome ==
    (pre.tag = "Serializer" /\ call.trait = "Serializer") =>
        /\ ans # <<>>
        /\ ans # <<>> =>
            IF ans[1].ok
            THEN ser.tag = ExpectedTag(call.name) /\ ret = "Ok"
            ELSE ser = InplaceSerializer("Error", ans[1].val) /\ ret = "Error"

C4_Witness ==
    /\ pre.tag = "Serializer"
    /\ call.name = "dyn_serialize_struct_variant"
    /\ ser.tag = "SerializeStructVariant"

\* The scalar operations and the generic operation of the same name.
Scalars ==
    { <<"dyn_serialize_bool", "serialize_bool">>, <<"dyn_serialize_i8", "serialize_i8">>,
      <<"dyn_serialize_i16", "serialize_i16">>, <<"dyn_serialize_i32", "serialize_i32">>,
      <<"dyn_serialize_i64", "serialize_i64">>, <<"dyn_serialize_i128", "serialize_i128">>,
      <<"dyn_serialize_u8", "serialize_u8">>, <<"dyn_serialize_u16", "serialize_u16">>,
      <<"dyn_serialize_u32", "serialize_u32">>, <<"dyn_serialize_u64", "serialize_u64">>,
      <<"dyn_serialize_u128", "serialize_u128">>, <<"dyn_serialize_f32", "serialize_f32">>,
      <<"dyn_serialize_f64", "serialize_f64">>, <<"dyn_serialize_char", "serialize_char">>,
      <<"dyn_serialize_str", "serialize_str">>, <<"dyn_serialize_bytes", "serialize_bytes">> }

\* C7: a scalar dyn_ call on an InplaceSerializer in Serializer makes the
\* wrapped codec receive exactly one call: the generic operation of the same
\* name with the same argument.
C7_ScalarForwarded ==
    \A p \in Scalars :
        (pre.tag = "Serializer" /\ call.name = p[1]) =>
            codec = <<[op |-> p[2], arg |-> call.arg]>>

C7_Witness ==
    /\ pre.tag = "Serializer"
    /\ call.name = "dyn_serialize_u8"
    /\ call.arg = 1
    /\ codec = <<[op |-> "serialize_u8", arg |-> 1]>>
    /\ ser.tag = "Ok"

\* The wrong-stage error of a Consumer facade: the status named after the
\* facade, wrapped in a DeserializeError where the facade returns one.
DWrongStage(trait) ==
    IF trait \in {"Visitor", "DeserializeSeed"} THEN Err(from(trait)) ELSE Err(trait)

\* C5: a call on a Consumer adapter that holds Value or Error returns the
\* wrong-stage error of the facade it was made through, and does not reach
\* the wrapped object.
C5_ConsumerInertOnceDone ==
    (dcall.trait # "-" /\ dpre.tag \in {"Value", "Error"}) =>
        (~dret.ok /\ dret = DWrongStage(dcall.trait) /\ dans = <<>>)

C5_Witness ==
    /\ dpre = InplaceEnumAccess("Error", "e2")
    /\ dcall.name = "dyn_unit_variant"
    /\ dret = Err("VariantAccess")
    /\ enm = Default

\* C6: after a hint call that returned success the concrete visitor has
\* received exactly one callback and the InplaceVisitor holds Value; the
\* concrete visitor never receives a second callback.
C6_OneCallback ==
    /\ (dcall.trait = "Deserializer" /\ dret.ok) => (Len(seen) = 1 /\ vis.tag = "Value")
    /\ Len(seen) <= 1

C6_Witness ==
    /\ dcall.name = "dyn_deserialize_seq"
    /\ dret.ok
    /\ seen = <<"visit_seq">>
    /\ vis = InplaceVisitor("Value", "v1")

\* The text of a value written directly by the reference codec, with no
\* facade in between, and the methods the codec receives for it.
Direct(v) == Serialize(Plain(v), <<>>, JsonSerializer("", <<>>, FALSE, <<>>)).json

RECURSIVE Joined(_)
Joined(texts) ==
    IF Len(texts) <= 1 THEN (IF texts = <<>> THEN "" ELSE texts[1])
    ELSE texts[1] \o "," \o Joined(Tail(texts))

HeterogeneousText == "[[true,false],100,\"Hello, world\",3.14]"

\* C9: a sequence of &dyn Serialize to values of different types is never
\* refused and reaches the codec element by element, in order, each element
\* written completely before the next starts: the text is the elements'
\* own texts joined by commas, and the codec receives the methods it
\* receives for the plain values; the sequence of the documentation gives
\* exactly [[true,false],100,"Hello, world",3.14].
C9_HeterogeneousSeq ==
    (stage # "start" /\ value \in DynSeqs) =>
        /\ stage # "failed"
        /\ text = "[" \o Joined([i \in 1 .. Len(value.items) |-> Direct(value.items[i]).out]) \o "]"
        /\ calls = Direct(value).calls
        /\ Plain(value) = Plain(Heterogeneous) => text = HeterogeneousText

C9_Witness ==
    /\ stage = "produced"
    /\ via = "facade"
    /\ value = Heterogeneous
    /\ text = HeterogeneousText
    /\ calls = <<"serialize_tuple",
                 "serialize_element", "serialize_tuple", "serialize_element", "serialize_bool",
                 "serialize_element", "serialize_bool", "end",
                 "serialize_element", "serialize_u8", "serialize_element", "serialize_str",
                 "serialize_element", "serialize_f32", "end">>

\* The shapes of the round trip.
Shapes ==
    {"unit", "unit_struct", "unit_variant", "newtype_struct", "newtype_variant", "tuple",
     "tuple_struct", "tuple_variant", "seq", "map", "struct", "struct_variant", "none", "some"}

\* A value the reference codec writes as null, and a value that holds a
\* present option of such a value: the codec reads null as the absent
\* option, so the text of Some(()) is the text of None.
RECURSIVE Nullish(_)
Nullish(v) ==
    \/ v.k \in {"unit", "unit_struct", "none"}
    \/ v.k \in {"some", "newtype_struct", "dyn"} /\ Nullish(v.items[1])

RECURSIVE Ambiguous(_)
Ambiguous(v) ==
    /\ v.k # "none"
    /\ \/ v.k = "some" /\ Nullish(v.items[1])
       \/ \E i \in 1 .. Len(v.items) : Ambiguous(v.items[i])

\* A value of a type that can be consumed: one that holds no &dyn Serialize.
Typed(v) == v = Plain(v)

\* C8 as stated: every value of the fourteen shapes, produced through the
\* Producer facade and consumed through the Consumer facade with the same
\* codec, comes back equal.
C8_AsStated ==
    (stage = "consumed" /\ via = "facade" /\ value.k \in Shapes /\ Typed(value)) => back = value

\* C8: a value of the fourteen shapes, produced through the Producer facade
\* and consumed through the Consumer facade with the same codec, comes back
\* equal, unless it holds a present option of a value that the codec writes
\* as null.
C8_RoundTrip ==
    (stage = "consumed" /\ via = "facade" /\ value.k \in Shapes /\ Typed(value)
     /\ ~Ambiguous(value)) => back = value

C8_Witness ==
    /\ stage = "consumed"
    /\ via = "facade"
    /\ value = V("struct_variant", 0, 0, "StructVariant", Fields(<<Scalar("bool", 1, 0, "")>>))
    /\ text = "{\"StructVariant\":{\"x\":true}}"
    /\ back = value

\* C10: consuming through the Consumer facade gives the caller the value
\* the text holds: {"x":1,"y":2} as a struct of the fields x and y gives
\* x = 1 and y = 2, 255 as a u8 gives 255, and "A" as a char gives 'A'.
C10_EndToEnd ==
    (stage = "consumed" /\ via = "input") =>
        /\ (ty = XY("u8") /\ text = "{\"x\":1,\"y\":2}") =>
               back = V("struct", 0, 0, "", Fields(<<Scalar("u8", 1, 0, ""), Scalar("u8", 2, 0, "")>>))
        /\ (ty = Scalar("u8", 0, 0, "") /\ text = "255") => back = Scalar("u8", 255, 0, "")
        /\ (ty = Scalar("char", 0, 0, "") /\ text = "\"A\"") => back = Scalar("char", 0, 0, "A")

C10_Witness ==
    /\ stage = "consumed"
    /\ via = "input"
    /\ ty = XY("u8")
    /\ text = "{\"x\":1,\"y\":2}"
    /\ back.k = "struct"
    /\ back.items[1] = V("field", 0, 0, "x", <<Scalar("u8", 1, 0, "")>>)
    /\ back.items[2] = V("field", 0, 0, "y", <<Scalar("u8", 2, 0, "")>>)

\* ================================================================ SpecErr
\* A visitor that meets a field it does not know reports it through the error
\* type it is instantiated with: the codec's own E on the native path, the
\* Descriptive Error (error.rs) or DeserializeError (de.rs) on the dynamic one.
\* The dynamic error is rendered, and converted into E at the crossing.
FieldNames == {"X", "id"}
ExpectedNames == {"Y", "Z", "W"}
ExpectedLists == UNION {[1..n -> ExpectedNames] : n \in 0..MaxNames}

InitErr ==
    /\ PInit
    /\ DIdle
    /\ EIdle
    /\ cross = NoCross
    /\ \E field \in FieldNames, expected \in ExpectedLists :
         report = [NoReport EXCEPT !.field = field, !.expected = expected]

\* V::visit_map::<A> with A::Error = E: Err(E::unknown_field(field, FIELDS))
ReportNative ==
    /\ report.path = "-"
    /\ report' = [report EXCEPT !.path = "native",
                                !.concrete = E_unknown_field(report.field, report.expected)]
    /\ UNCHANGED <<pvars, dvars, evars, cross>>

\* The same visitor with A::Error = Error: the report keeps its category, and
\* renders with Display.
ReportError ==
    /\ report.path = "-"
    /\ LET error == Error_unknown_field(report.field, report.expected) IN
         report' = [report EXCEPT !.path = "Error", !.kind = error,
                                  !.shown = ErrorKind_Display(error)]
    /\ UNCHANGED <<pvars, dvars, evars, cross>>

\* The same visitor with A::Error = DeserializeError.
ReportDeserializeError ==
    /\ report.path = "-"
    /\ LET error == DeserializeError_unknown_field(report.field, report.expected) IN
         report' = [report EXCEPT !.path = "DeserializeError", !.held = error,
                                  !.shown = DeserializeError_Display(error)]
    /\ UNCHANGED <<pvars, dvars, evars, cross>>

\* The crossing back to the generic caller: error.into_de_error::<E>()
IntoDeError ==
    /\ report.path \in {"Error", "DeserializeError"}
    /\ report.concrete = ""
    /\ report' = [report EXCEPT !.concrete =
                      IF report.path = "Error" THEN Error_into_de_error(report.kind)
                      ELSE into_de_error(report.held)]
    /\ UNCHANGED <<pvars, dvars, evars, cross>>

NextErr == ReportNative \/ ReportError \/ ReportDeserializeError \/ IntoDeError

SpecErr == InitErr /\ [][NextErr]_vars

\* C11: an unknown-field failure reported through the dynamic error types
\* renders the same text as the native path: the Descriptive Error shows the
\* text the codec's own unknown_field produces for the same field and list,
\* and the concrete error made of it at the crossing carries that text too.
C11_SameText ==
    report.path \in {"Error", "DeserializeError"} =>
        /\ report.shown = E_unknown_field(report.field, report.expected)
        /\ report.concrete # "" =>
             report.concrete = E_unknown_field(report.field, report.expected)
        /\ (report.field = "X" /\ report.expected = <<>>) =>
             report.shown = "unknown field 'X', there are no fields"
        /\ (report.field = "X" /\ report.expected = <<"Y">>) =>
             report.shown = "unknown field 'X', expected 'Y'"
        /\ (report.field = "X" /\ report.expected = <<"Y", "Z">>) =>
             report.shown = "unknown field 'X', expected 'Y' or 'Z'"
        /\ (report.field = "X" /\ report.expected = <<"Y", "Z", "W">>) =>
             report.shown = "unknown field 'X', expected one of 'Y', 'Z', 'W'"

\* The Descriptive Error of a field outside a list of three was rendered and
\* converted.
C11_Witness ==
    /\ report.path = "Error"
    /\ report.kind.kind = "UnknownField"
    /\ Len(report.expected) = 3
    /\ report.concrete = "unknown field 'id', expected one of 'Y', 'Z', 'W'"

\* ============================================================= SpecBridges
\* Either bridge family under an arbitrary sequence of facade calls: the
\* InplaceSerializer of Spec, or the Consumer adapters of SpecDe.
InitBridges == Init \/ InitDe

NextBridges ==
    \/ (scen = "-" /\ Next)
    \/ (scen # "-" /\ DNext)

SpecBridges == InitBridges /\ [][NextBridges]_vars

\* The tags of enum InplaceSerializer.
Tags == {"None", "Ok", "Error", "Serializer"} \cup CompositeTags

\* The Consumer adapter the last call was made on.
Called ==
    CASE dcall.trait = "Deserializer" -> de
      [] dcall.trait = "Visitor" -> vis
      [] dcall.trait = "DeserializeSeed" -> seed
      [] dcall.trait = "SeqAccess" -> seq
      [] dcall.trait = "MapAccess" -> map
      [] OTHER -> enm

\* The methods that begin with mem::take(self): the Serializer-level calls
\* and dyn_end of the Producer; every Consumer method but those of
\* InplaceSeqAccess and InplaceMapAccess, which match on self in place.
Takes == call.trait = "Serializer" \/ call.name = "dyn_end"
DTakes == dcall.trait \notin {"SeqAccess", "MapAccess"}

\* C12 (as stated): every facade call leaves the bridge in a tag other than
\* the one it found.
C12_AsStated ==
    /\ call # NoCall => (ser.tag \in Tags /\ ser.tag # pre.tag)
    /\ dcall.trait # "-" => Called.tag # dpre.tag

\* C12 (amended): every facade call leaves the bridge holding one tag. A call
\* that takes the tag leaves a new one when it finds the tag it requires (a
\* composite, Ok, Value, VariantAccess, None or Error) and None when it does
\* not; an element-level call leaves the bridge as it found it unless the
\* wrapped codec fails, and then leaves Error holding the codec's error.
C12_OneTagAfterCall ==
    /\ ser.tag \in Tags
    /\ (call # NoCall /\ Takes) =>
         IF pre.tag = (IF call.trait = "Serializer" THEN "Serializer" ELSE call.trait)
         THEN ser.tag # pre.tag /\ ser.tag \in {"Ok", "Error"} \cup CompositeTags
         ELSE ser = Default
    /\ (call # NoCall /\ ~Takes) =>
         IF ans # <<>> /\ ~ans[1].ok
         THEN ser = InplaceSerializer("Error", ans[1].val)
         ELSE ser = pre
    /\ (dcall.trait # "-" /\ DTakes) =>
         IF dpre.tag = dcall.trait
         THEN Called.tag # dpre.tag /\ Called.tag \in {"None", "Value", "VariantAccess", "Error"}
         ELSE Called = Default
    /\ (dcall.trait # "-" /\ ~DTakes) =>
         IF dans # <<>> /\ ~dans[1].r.ok
         THEN Called = InplaceSeqAccess("Error", dans[1].r.val)
         ELSE Called = dpre

\* An element call that succeeded on an open sequence, which is still open.
C12_Witness ==
    /\ call.name = "dyn_serialize_element"
    /\ pre.tag = "SerializeSeq"
    /\ ret = "Ok"
    /\ ser = pre

\* The crossings that wrap a nested object in its Inplace adapter.
NestedCrossings ==
    {"deserialize", "visit_some", "visit_newtype_struct", "visit_seq", "visit_map", "visit_enum"}

\* C13: at a crossing from a dyn call back to the generic caller, a nested
\* adapter that ended in Error gives the caller exactly the concrete error it
\* holds; otherwise the caller receives the dyn call's own result, its error
\* converted to the concrete error type: the message of a custom error, the
\* text of a status.
C13_CrossingResult ==
    cross.at \in NestedCrossings =>
        CASE cross.nested.tag = "Error" -> cross.ret = Err(cross.nested.val)
          [] cross.nested.tag # "Error" /\ cross.dyn.ok -> cross.ret = cross.dyn
          [] OTHER ->
               /\ cross.dyn.val \in
                    {"Other(m1)", "DeserializerError(Error)", "DeserializerError(Visitor)",
                     "DeserializerError(DeserializeSeed)"}
               /\ cross.dyn.val = "Other(m1)" => cross.ret = Err("m1")
               /\ cross.dyn.val = "DeserializerError(Error)" =>
                    cross.ret = Err("an error occurred during the deserialization")
               /\ cross.dyn.val = "DeserializerError(Visitor)" =>
                    cross.ret = Err("the visitor is not ready")
               /\ cross.dyn.val = "DeserializerError(DeserializeSeed)" =>
                    cross.ret = Err("the deserialize-seed is not ready")

\* A seed that failed with its own message while the nested deserializer had
\* kept the codec's error: the caller receives the codec's error.
C13_Witness ==
    /\ cross.at = "deserialize"
    /\ cross.nested = InplaceDeserializer("Error", "e2")
    /\ cross.dyn = Err("Other(m1)")
    /\ cross.ret = Err("e2")

\* C14: a call that does not find the tag it requires returns the wrong-stage
\* Status of the facade it was made through, whatever the bridge holds, and
\* does not reach the wrapped object; the generic Error is returned only when
\* the wrapped object was invoked and failed.
C14_StatusOfTheFacade ==
    /\ call # NoCall =>
         /\ pre.tag # call.trait => (ret = call.trait /\ ret \in WrongStage /\ ans = <<>>)
         /\ ret = "Error" => (ans # <<>> /\ ~ans[1].ok)
         /\ ret \in WrongStage => pre.tag # call.trait
    /\ dcall.trait # "-" =>
         /\ dpre.tag # dcall.trait => (dret = DWrongStage(dcall.trait) /\ dans = <<>>)
         /\ dret \in {Err("Error"), Err(from("Error"))} => (dans # <<>> /\ ~dans[1].r.ok)

\* A struct-variant field call on a bridge that holds an open sequence.
C14_Witness ==
    /\ pre.tag = "SerializeSeq"
    /\ call.trait = "SerializeStructVariant"
    /\ call.name = "dyn_serialize_field"
    /\ ret = "SerializeStructVariant"
    /\ ans = <<>>

\* The operations of the wrapped codec a Serializer-level call makes.
SerializerOps == {row.codec : row \in SerializerRows}

\* How many of the calls the codec has received are among ops.
Received(ops) == Cardinality({i \in 1..Len(codec) : codec[i].op \in ops})

\* C15: an InplaceSerializer only moves forward. A bridge that does not hold
\* Serializer never holds it again; a bridge that holds neither Serializer nor
\* a composite never holds a composite again, and an open composite is never
\* replaced by another; so the wrapped codec receives at most one
\* Serializer-level operation and at most one end.
C15_ForwardOnly ==
    /\ [](Received(SerializerOps) <= 1 /\ Received({"end"}) <= 1)
    /\ [][ /\ ser.tag # "Serializer" => ser'.tag # "Serializer"
           /\ ser.tag \notin CompositeTags \cup {"Serializer"} => ser'.tag \notin CompositeTags
           /\ (ser.tag \in CompositeTags /\ ser'.tag \in CompositeTags) => ser'.tag = ser.tag
         ]_vars

\* A sequence was opened and ended, and a further Serializer-level call on the
\* completed bridge was refused.
C15_Witness ==
    /\ Len(codec) >= 2
    /\ codec[1].op = "serialize_seq"
    /\ codec[Len(codec)].op = "end"
    /\ pre.tag = "Ok"
    /\ call.trait = "Serializer"
    /\ ret = "Serializer"
    /\ ser = Default

\* =============================================================== SpecValue
\* A value's dyn_serialize against the fresh bridge that serialize of
\* dyn Serialize has made for it: any sequence of facade calls, then its
\* return, and the match on the bridge. trait Serialize is public, and
\* dyn_serialize is its one required method: a value returns Ok, or the Status
\* of its last call, or an error of its own.
ValueResults ==
    {Ok("unit"), Err(SerializeError_custom("m1"))} \cup
    (IF ret \in SerializerError THEN {Err(SerializeError_from(ret))} ELSE {})

\* self.dyn_serialize(&mut serializer) has returned `result`.
Return ==
    /\ stage = "-"
    /\ scen = "-"
    /\ \E result \in ValueResults :
         /\ stage' = "returned"
         /\ back' = [result |-> result, out |-> serialize_match(ser, result)]
    /\ UNCHANGED <<pvars, dvars, xvars, via, value, ty, text, calls>>

NextValue ==
    \/ (stage = "-" /\ Next)
    \/ Return

SpecValue == Init /\ [][NextValue]_vars

\* C16: when dyn_serialize has returned against the fresh bridge, its result
\* is Ok if and only if the bridge holds Ok, and the unreachable!() branch is
\* not executed.
C16_OkIffBridgeOk ==
    stage = "returned" =>
        /\ back.result.ok <=> ser.tag = "Ok"
        /\ back.out # Err("unreachable!")

\* C17: for a hint call, or a tuple-variant or struct-variant call, that hands
\* over a fresh InplaceVisitor, the Status of the dyn call is Ok if and only
\* if the visitor ends in Value, so that expect_err only meets an Err result
\* and a visitor without a value.
C17_OkIffValue ==
    [][ ( /\ vis.tag = "Visitor"
          /\ \/ dcall'.trait = "Deserializer"
             \/ dcall'.name \in {"dyn_tuple_variant", "dyn_struct_variant"} )
        => (dret'.ok <=> vis'.tag = "Value") ]_vars

\* C18: a seed call on an access (dyn_next_element, dyn_next_key,
\* dyn_next_value, dyn_next_entry, dyn_variant_seed, dyn_newtype_variant) that
\* hands over fresh seeds reports a decoded item, Ok(Some) or Ok, if and only
\* if every seed handed to it ends in Value.
C18_DecodedIffValue ==
    [][ /\ ( /\ seed.tag = "DeserializeSeed"
             /\ dcall'.name \in {"dyn_next_element", "dyn_next_key", "dyn_next_value",
                                 "dyn_variant_seed", "dyn_newtype_variant"} )
           => ((dret'.ok /\ dret'.val # "None") <=> seed'.tag = "Value")
        /\ ( /\ seed.tag = "DeserializeSeed"
             /\ vseed.tag = "DeserializeSeed"
             /\ dcall'.name = "dyn_next_entry" )
           => ((dret'.ok /\ dret'.val # "None") <=> (seed'.tag = "Value" /\ vseed'.tag = "Value"))
      ]_vars

\* C19: a failure of the wrapped codec at any depth of a nested value reaches
\* the outermost bridge as the codec's own error: the value fails through the
\* facade exactly when it fails with the codec alone, the outermost bridge
\* then holds Error with the error the codec alone reports, and the facade
\* call returns the status Error.
C19_NestedFailure ==
    (stage \in {"produced", "failed"} /\ via = "facade") =>
        LET native == Serialize(value, <<>>, JsonSerializer("", <<>>, FALSE, <<>>)).ret
        IN  /\ stage = "failed" <=> ~native.ok
            /\ stage = "failed" =>
                 /\ ser = InplaceSerializer("Error", native.val)
                 /\ ser.val = "key must be a string"
                 /\ back = Outcome(Err("SerializerError(Error)"))

\* The refused map at depth three: inside an option inside a sequence inside
\* a newtype struct.
C19_Witness ==
    /\ stage = "failed"
    /\ via = "facade"
    /\ value.k = "newtype_struct"
    /\ value.items[1].k = "seq"
    /\ value.items[1].items[1].k = "some"
    /\ ser = InplaceSerializer("Error", "key must be a string")

\* C20: a visitor callback that succeeds leaves the InplaceVisitor in Value
\* holding what the concrete visitor made; a dyn_variant_seed that succeeds
\* leaves the InplaceEnumAccess in VariantAccess holding the variant access;
\* a failure of the wrapped deserializer, sequence access, map access, enum
\* access or variant access leaves its adapter in Error holding the error.
C20_Stored ==
    /\ (dcall.trait = "Visitor" /\ dans # <<>> /\ dans[1].r.ok) =>
         (dret.ok /\ vis = InplaceVisitor("Value", dans[1].r.val))
    /\ (dcall.name = "dyn_variant_seed" /\ dans # <<>> /\ dans[1].r.ok) =>
         (dret.ok /\ enm = InplaceEnumAccess("VariantAccess", dans[1].r.val))
    /\ (dans # <<>> /\ ~dans[1].r.ok) =>
         /\ dcall.trait = "Deserializer" => de = InplaceDeserializer("Error", dans[1].r.val)
         /\ dcall.trait = "SeqAccess" => seq = InplaceSeqAccess("Error", dans[1].r.val)
         /\ dcall.trait = "MapAccess" => map = InplaceMapAccess("Error", dans[1].r.val)
         /\ dcall.trait \in {"EnumAccess", "VariantAccess"} =>
              enm = InplaceEnumAccess("Error", dans[1].r.val)

\* dyn_visit_seq has stored the visitor's value.
C20_Witness ==
    /\ dcall.name = "dyn_visit_seq"
    /\ dpre.tag = "Visitor"
    /\ dret.ok
    /\ vis = InplaceVisitor("Value", "v1")

\* C21: when the wrapped deserializer fails on the top-level hint call, the
\* InplaceDeserializer holds Error, and the generic call through the dyn
\* reference returns the DeserializeError of the status Error alone, without
\* the concrete error or its message.
C21_StatusOnly ==
    (stage = "consumed" /\ de.tag = "Error") =>
        /\ back = Outcome(Err(from("Error")))
        /\ back.s = "DeserializerError(Error)"

\* C22: on an InplaceEnumAccess a variant call reaches the wrapped variant
\* access only on the adapter a dyn_variant_seed has left in VariantAccess,
\* which only a dyn_variant_seed that succeeded does; a call that reaches a
\* wrapped object uses it up, and no call brings EnumAccess or VariantAccess
\* back, so at most one variant_seed and at most one variant call are
\* forwarded; a variant call made first, and a second dyn_variant_seed or
\* variant call, return the wrong-stage status of their facade.
C22_SeedThenVariant ==
    /\ []( /\ (dcall.trait = "EnumAccess" /\ dans # <<>>) => dpre.tag = "EnumAccess"
           /\ (dcall.trait = "VariantAccess" /\ dans # <<>>) => dpre.tag = "VariantAccess"
           /\ (dcall.trait = "EnumAccess" /\ dpre.tag # "EnumAccess") =>
                (dret = Err("EnumAccess") /\ dans = <<>>)
           /\ (dcall.trait = "VariantAccess" /\ dpre.tag # "VariantAccess") =>
                (dret = Err("VariantAccess") /\ dans = <<>>) )
    /\ [][ /\ enm'.tag = "EnumAccess" => enm = enm'
           /\ enm'.tag = "VariantAccess" =>
                \/ enm = enm'
                \/ (enm.tag = "EnumAccess" /\ dcall'.name = "dyn_variant_seed" /\ dret'.ok)
           /\ (dans' # <<>> /\ dcall'.trait \in {"EnumAccess", "VariantAccess"}) =>
                enm'.tag \notin {enm.tag, "EnumAccess"}
         ]_vars

\* A unit-variant call that followed a dyn_variant_seed was forwarded, and the
\* adapter is used up.
C22_Witness ==
    /\ dcall.name = "dyn_unit_variant"
    /\ dpre = InplaceEnumAccess("VariantAccess", "variant")
    /\ dans = <<[op |-> "unit_variant", r |-> Ok("unit")]>>
    /\ dret.ok
    /\ enm = Default

\* =============================================================== SpecQuery
\* The queries of the bridges, which take &self: after any sequence of facade
\* calls on either family, the remaining-count hint of a sequence or map
\* adapter, or the human-readable query of an InplaceSerializer or an
\* InplaceDeserializer; h is what the wrapped object would answer.
SizeHints == {"None", "Some(0)", "Some(2)"}

Asked(query, self, h, answer) == [query |-> query, self |-> self, h |-> h, answer |-> answer]

SizeHint ==
    /\ stage = "-"
    /\ scen \in {"SeqAccess", "MapAccess"}
    /\ \E h \in SizeHints :
         back' = IF scen = "SeqAccess"
                 THEN Asked("dyn_size_hint", seq, h, InplaceSeqAccess_dyn_size_hint(seq, h))
                 ELSE Asked("dyn_size_hint", map, h, InplaceMapAccess_dyn_size_hint(map, h))
    /\ stage' = "asked"
    /\ UNCHANGED <<pvars, dvars, xvars, via, value, ty, text, calls>>

IsHumanReadable ==
    /\ stage = "-"
    /\ scen \in {"-", "Deserializer"}
    /\ \E h \in BOOLEAN :
         back' = IF scen = "-"
                 THEN Asked("dyn_is_human_readable", ser, h, dyn_is_human_readable(ser, h))
                 ELSE Asked("dyn_is_human_readable", de, h,
                            InplaceDeserializer_dyn_is_human_readable(de, h))
    /\ stage' = "asked"
    /\ UNCHANGED <<pvars, dvars, xvars, via, value, ty, text, calls>>

NextQuery ==
    \/ (stage = "-" /\ NextBridges)
    \/ SizeHint
    \/ IsHumanReadable

SpecQuery == InitBridges /\ [][NextQuery]_vars

\* The sequence or map adapter of the scenario.
Access == IF scen = "SeqAccess" THEN seq ELSE map

\* C23: an InplaceSeqAccess or InplaceMapAccess is as it was after every next
\* call that succeeds, the one that signals the end included, and holds Error
\* after a call only if the wrapped access failed in that call or the adapter
\* held that Error before; an adapter in Error is not changed by any step,
\* and its dyn_size_hint answers None.
C23_AccessStaysReady ==
    /\ []( /\ (dcall.trait \in {"SeqAccess", "MapAccess"} /\ dret.ok) =>
                (Access = dpre /\ Access.tag = dcall.trait /\ dans # <<>> /\ dans[1].r = dret)
           /\ (dcall.trait \in {"SeqAccess", "MapAccess"} /\ Access.tag = "Error") =>
                \/ Access = dpre
                \/ (dpre.tag = dcall.trait /\ dans # <<>> /\ dans[1].r = Err(Access.val))
           /\ (stage = "asked" /\ back.query = "dyn_size_hint") =>
                /\ back.self = Access
                /\ back.answer = IF Access.tag = "Error" THEN "None" ELSE back.h )
    /\ [][ /\ seq.tag = "Error" => seq' = seq
           /\ map.tag = "Error" => map' = map ]_vars

\* A sequence adapter that failed with e1 was asked for its size hint where
\* the access would have answered Some(2).
C23_Witness ==
    /\ stage = "asked"
    /\ back.query = "dyn_size_hint"
    /\ back.self = InplaceSeqAccess("Error", "e1")
    /\ back.h = "Some(2)"
    /\ back.answer = "None"
    /\ seq = InplaceSeqAccess("Error", "e1")

\* ============================================================= SpecCollect
\* collect_seq and collect_map for &mut dyn Serializer, one step per dyn call
\* of the body. The iterator is what the body sees of it: the n items it
\* yields, numbered in iteration order, and its size_hint (lo, hi), hi = NoLen
\* for None; a hint need not agree with n. The bridge is fresh or already used.
MaxCollect == 2

Iterators ==
    [n : 0 .. MaxCollect, lo : 0 .. MaxCollect, hi : (0 .. MaxCollect) \cup {NoLen}]

\* The length a collect call opens with, always None.
collect_len_none(iter) == NoLen

\*   match iter.size_hint() { (lo, Some(hi)) if lo == hi => Some(lo), _ => None }
collect_len(iter) == IF iter.hi # NoLen /\ iter.lo = iter.hi THEN iter.lo ELSE NoLen

\* The rows of the dyn calls of a collect call.
CollectOpenRow(f) ==
    CHOOSE row \in OpenRows :
        row.name = IF f = "collect_seq" THEN "dyn_serialize_seq" ELSE "dyn_serialize_map"
CollectItemRow(f) ==
    CHOOSE row \in ElementRows :
        IF f = "collect_seq"
        THEN row.trait = "SerializeSeq" /\ row.name = "dyn_serialize_element"
        ELSE row.trait = "SerializeMap" /\ row.name = "dyn_serialize_entry"
CollectEndRow(f) ==
    CHOOSE row \in EndRows :
        row.trait = IF f = "collect_seq" THEN "SerializeSeq" ELSE "SerializeMap"

InitCollect ==
    /\ ser \in {new("codec"), Default}
    /\ codec = <<>>
    /\ reported = "-"
    /\ call = NoCall
    /\ ret = "-"
    /\ ans = <<>>
    /\ pre = Default
    /\ proto = Start
    /\ DIdle
    /\ XIdle
    /\ stage = "called"
    /\ via \in {"collect_seq", "collect_map"}
    /\ value \in Iterators
    /\ ty = NoValue
    /\ text = ""
    /\ calls = <<>>
    /\ back = Ok("-")

\* The effect of one dyn call of the body on the bridge and the codec; `to`
\* is where the body goes on if the call succeeds, and `?` or map_err returns
\* SerializeError::from of the Status if it fails.
CollectApply(row, v, r, res, to) ==
    /\ ser' = res.self
    /\ ret' = res.ret
    /\ codec' = IF res.invoked THEN Append(codec, codec_call(row, v)) ELSE codec
    /\ reported' = IF res.invoked /\ ~r.ok THEN r.val ELSE reported
    /\ ans' = IF res.invoked THEN <<r>> ELSE <<>>
    /\ call' = [trait |-> row.trait, name |-> row.name, arg |-> v]
    /\ pre' = ser
    /\ proto' = ProtoNext(proto, row)
    /\ stage' = IF res.ret = "Ok" THEN to ELSE "returned"
    /\ back' = IF res.ret = "Ok"
               THEN (IF to = "returned" THEN Ok("unit") ELSE back)
               ELSE Err(SerializeError_from(res.ret))
    /\ UNCHANGED <<dvars, xvars, via, value, ty, text>>

\* let serializer = self.dyn_serialize_seq(len)?;
CollectOpen ==
    /\ stage = "called"
    /\ LET row == CollectOpenRow(via)
       IN  \E r \in Answers(ser, row) :
             /\ CollectApply(row, collect_len(value), r, dyn_serialize(ser, row, r), "items")
             /\ calls' = calls

\* for item in iter { serializer.dyn_serialize_element(&item)?; }
CollectItem ==
    /\ stage = "items"
    /\ Len(calls) < value.n
    /\ LET row == CollectItemRow(via)
           item == Len(calls) + 1
       IN  \E r \in Answers(ser, row) :
             /\ CollectApply(row, item, r, dyn_serialize_element(ser, row, r), "items")
             /\ calls' = Append(calls, item)

\* serializer.dyn_end().map_err(SerializeError::from)
CollectEnd ==
    /\ stage = "items"
    /\ Len(calls) = value.n
    /\ LET row == CollectEndRow(via)
       IN  \E r \in Answers(ser, row) :
             /\ CollectApply(row, 0, r, dyn_end(ser, row, r), "returned")
             /\ calls' = calls

NextCollect == CollectOpen \/ CollectItem \/ CollectEnd

SpecCollect == InitCollect /\ [][NextCollect]_vars

\* ------------------------------------------- the crossings of the accesses
\* A failed debug_assert!: the call does not return.
Panicked == Err("panicked: assertion failed")

\* next_element_seed for &mut dyn SeqAccess after the dyn call: seed_ is the
\* InplaceDeserializeSeed the call was handed, result the Status of
\* dyn_next_element, debug whether debug assertions are compiled in.
SeqAccess_next_element_seed(seed_, result, debug) ==
    IF seed_.tag = "Value"
    THEN IF debug /\ result # Ok("Some") THEN Panicked ELSE Ok(Some(seed_.val))
    ELSE IF result = Ok("None") THEN Ok(None)
    ELSE Err(expect_err(result))

\* next_entry_seed returning the entry as soon as the key seed holds a value.
MapAccess_next_entry_seed_key_only(kseed, vseed_, result, debug) ==
    IF kseed.tag = "Value"
    THEN Ok(Some(<<kseed.val, vseed_.val>>))
    ELSE IF result = Ok("None") THEN Ok(None)
    ELSE Err(expect_err(result))

\* next_entry_seed for &mut dyn MapAccess after the dyn call.
MapAccess_next_entry_seed(kseed, vseed_, result, debug) ==
    IF kseed.tag = "Value" /\ vseed_.tag = "Value"
    THEN IF debug /\ result # Ok("Some") THEN Panicked
         ELSE Ok(Some(<<kseed.val, vseed_.val>>))
    ELSE IF result = Ok("None") THEN Ok(None)
    ELSE Err(expect_err(result))

\* C24: next_element_seed through a dyn SeqAccess, handing over a fresh seed,
\* returns Ok(Some(value)) with the seed's value if and only if the wrapped
\* access answered Ok(Some), and Ok(None) if and only if the wrapped access
\* answered Ok(None); in that case the seed was not invoked and the adapter
\* is the ready adapter it was.
C24_SomeIffDecoded ==
    [][ ( /\ seed.tag = "DeserializeSeed"
          /\ dcall'.name = "dyn_next_element" )
        => \A debug \in BOOLEAN :
             LET out == SeqAccess_next_element_seed(seed', dret', debug)
             IN  /\ (seed'.tag = "Value" /\ out.ok /\ out.val = Some(seed'.val)) <=>
                      (dans' # <<>> /\ dans'[1].r = Ok("Some"))
                 /\ (out.ok /\ out.val = None) <=> (dans' # <<>> /\ dans'[1].r = Ok("None"))
                 /\ (out.ok /\ out.val = None) =>
                      (seed' = seed /\ cross' = NoCross /\ seq' = seq /\ seq.tag = "SeqAccess")
      ]_vars

\* C25: next_entry_seed through a dyn MapAccess, handing over fresh seeds,
\* returns Ok(Some((key, value))) only if the key seed and the value seed both
\* end in Value, and then with their values; when the key seed ends in Value
\* and the value seed does not, it returns an error converted from the Status
\* of the dyn call: not an entry, not Ok(None), and not through unreachable!().
C25_WholeEntryOrError ==
    [][ ( /\ seed.tag = "DeserializeSeed"
          /\ vseed.tag = "DeserializeSeed"
          /\ dcall'.name = "dyn_next_entry" )
        => \A debug \in BOOLEAN :
             LET out == MapAccess_next_entry_seed(seed', vseed', dret', debug)
             IN  /\ (out.ok /\ out.val # None) =>
                      /\ seed'.tag = "Value"
                      /\ vseed'.tag = "Value"
                      /\ out.val = Some(<<seed'.val, vseed'.val>>)
                 /\ (seed'.tag = "Value" /\ vseed'.tag # "Value") =>
                      /\ ~dret'.ok
                      /\ ~out.ok
                      /\ out.val = from(dret'.val)
                      /\ map'.tag = "Error"
      ]_vars

\* A key was decoded and the value seed failed with its own message, which
\* the wrapped access reported and the adapter keeps.
C25_Witness ==
    /\ dcall.name = "dyn_next_entry"
    /\ dpre = InplaceMapAccess("MapAccess", "access")
    /\ seed.tag = "Value"
    /\ vseed.tag = "None"
    /\ dans = <<[op |-> "next_entry_seed", r |-> Err("m1")]>>
    /\ map = InplaceMapAccess("Error", "m1")
    /\ dret = Err("Error")
    /\ ~MapAccess_next_entry_seed(seed, vseed, dret, TRUE).ok
    /\ MapAccess_next_entry_seed(seed, vseed, dret, TRUE).val = from("Error")

\* The last call was a call of the rows.
CallOf(rows) == \E row \in rows : row.trait = call.trait /\ row.name = call.name

\* C26: an element, field, key, value, entry or skip-field call on an
\* InplaceSerializer that is not in the composite tag of the call returns the
\* wrong-stage Status of its kind without reaching the codec, and the bridge
\* is exactly what it was before the call, tag and payload.
C26_RefusedElementKeeps ==
    (CallOf(ElementRows) /\ pre.tag # call.trait) =>
        /\ ret = call.trait
        /\ ret \in WrongStage
        /\ ans = <<>>
        /\ ser = pre

\* A sequence element offered to an open map: the map stays open.
C26_Witness ==
    /\ call.trait = "SerializeSeq"
    /\ call.name = "dyn_serialize_element"
    /\ pre = InplaceSerializer("SerializeMap", "composite")
    /\ ret = "SerializeSeq"
    /\ ser = InplaceSerializer("SerializeMap", "composite")

\* C27: a scalar, unit, newtype, collect_str, open or end call on an
\* InplaceSerializer that is not in the tag the call requires returns the
\* wrong-stage Status of its kind without reaching the codec and leaves the
\* bridge in None, whatever it held: a result, an error, an open composite or
\* the codec.
C27_RefusedTakeEmpties ==
    (CallOf(SerializerRows \cup EndRows) /\ pre.tag # call.trait) =>
        /\ ret = call.trait
        /\ ret \in WrongStage
        /\ ans = <<>>
        /\ ser = Default

\* A scalar offered to a bridge that held the codec's error: the error is gone.
C27_Witness ==
    /\ call.trait = "Serializer"
    /\ call.name = "dyn_serialize_bool"
    /\ pre = InplaceSerializer("Error", "e1")
    /\ reported = "e1"
    /\ ret = "Serializer"
    /\ ser = Default

\* C28: dyn_is_human_readable on an InplaceSerializer or InplaceDeserializer
\* answers what the wrapped codec answers while the bridge holds the codec
\* (Serializer, Deserializer) and true in every other tag, and the bridge is
\* after the query what it was before it, tag and payload.
C28_HumanReadable ==
    /\ []( (stage = "asked" /\ back.query = "dyn_is_human_readable") =>
             /\ scen = "-" =>
                  /\ back.self = ser
                  /\ back.answer = IF ser.tag = "Serializer" THEN back.h ELSE TRUE
             /\ scen # "-" =>
                  /\ back.self = de
                  /\ back.answer = IF de.tag = "Deserializer" THEN back.h ELSE TRUE )
    /\ [][ (stage = "-" /\ stage' = "asked") => (ser' = ser /\ de' = de) ]_vars

\* An open sequence over a codec that is not human-readable answers true.
C28_Witness ==
    /\ stage = "asked"
    /\ back.query = "dyn_is_human_readable"
    /\ back.self = InplaceSerializer("SerializeSeq", "composite")
    /\ back.h = FALSE
    /\ back.answer = TRUE
    /\ ser = InplaceSerializer("SerializeSeq", "composite")

\* C29: an element, field, key, value, entry or skip-field call on an
\* InplaceSerializer in the composite tag of the call is forwarded to the
\* wrapped composite whatever length the open call declared and however many
\* element calls came before: the codec receives the call, the Status is Ok
\* if and only if the codec's answer is, and after success the composite is
\* still open.
C29_LengthNotChecked ==
    (CallOf(ElementRows) /\ pre.tag = call.trait) =>
        /\ ans # <<>>
        /\ Len(codec) >= 2
        /\ \E row \in ElementRows :
             /\ row.trait = call.trait
             /\ codec[Len(codec)] = codec_call(row, call.arg)
        /\ ret = "Ok" <=> ans[1].ok
        /\ ans[1].ok => ser = pre
        /\ ~ans[1].ok => (ret = "Error" /\ ser = InplaceSerializer("Error", ans[1].val))

\* A tuple opened with length 0 has taken two elements.
C29_Witness ==
    /\ Len(codec) = 3
    /\ codec[1] = [op |-> "serialize_tuple", arg |-> 0]
    /\ codec[2].op = "serialize_element"
    /\ codec[3].op = "serialize_element"
    /\ call.name = "dyn_serialize_element"
    /\ pre.tag = "SerializeTuple"
    /\ ret = "Ok"
    /\ ser.tag = "SerializeTuple"

\* The calls the codec received from a collect call that was not refused:
\* the open call with the length of the hint, then the first k items.
Collected(k) ==
    <<codec_call(CollectOpenRow(via), collect_len(value))>> \o
    [i \in 1 .. k |-> codec_call(CollectItemRow(via), i)]

\* C30: collect_seq and collect_map open the composite with Some(lo) when the
\* size hint is (lo, Some(lo)) and with None otherwise, then forward the items
\* in iteration order, then call end once, after the last item. A failing
\* item returns the Status of that call as the error, with the codec's error
\* kept in the bridge: no later item and no end reach the codec.
C30_Collect ==
    /\ codec # <<>> =>
         /\ codec[1].arg = IF value.hi # NoLen /\ value.lo = value.hi THEN value.lo ELSE NoLen
         /\ \/ codec = Collected(Len(calls))
            \/ /\ Len(calls) = value.n
               /\ stage = "returned"
               /\ codec = Append(Collected(value.n), codec_call(CollectEndRow(via), 0))
    /\ (stage = "returned" /\ back.ok) =>
         /\ codec = Append(Collected(value.n), codec_call(CollectEndRow(via), 0))
         /\ ser.tag = "Ok"
    /\ (stage = "returned" /\ call.name \in {"dyn_serialize_element", "dyn_serialize_entry"}) =>
         /\ ans # <<>>
         /\ ~ans[1].ok
         /\ back = Err(SerializeError_from("Error"))
         /\ ser = InplaceSerializer("Error", ans[1].val)
         /\ codec = Collected(Len(calls))
    /\ (stage = "returned" /\ codec = <<>>) => back = Err(SerializeError_from("Serializer"))

\* Of two items behind the hint (1, Some(1)), the first failed: the sequence
\* was opened with Some(1), and the codec saw neither the second nor an end.
C30_Witness ==
    /\ via = "collect_seq"
    /\ value = [n |-> 2, lo |-> 1, hi |-> 1]
    /\ stage = "returned"
    /\ codec = <<[op |-> "serialize_seq", arg |-> 1], [op |-> "serialize_element", arg |-> 1]>>
    /\ back = Err(SerializeError_from("Error"))
    /\ ser = InplaceSerializer("Error", "e1")

\* ============================================================= SpecProduce
\* serialize of dyn Serialize as the call stack it is, one step per facade
\* call, against a codec that does not fail. `calls` holds one activation of
\* serialize per bridge created, in the order of creation and kept after its
\* return: the value, the bridge, where the body stands, the elements done,
\* the activation whose element call it serves, the result of dyn_serialize
\* and the outcome of the final match.
MaxDepth == 2
MaxWidth == 3

\* The values: a scalar at depth 0, else a sequence or a tuple of w elements
\* one level less deep, the i-th of them i - 1 wide and of the other kind.
RECURSIVE Tree(_, _, _)
Tree(d, w, k) ==
    IF d = 0 THEN V("bool", 0, 0, "", <<>>)
    ELSE V(k, 0, 0, "", [i \in 1 .. w |-> Tree(d - 1, i - 1, IF k = "seq" THEN "tuple" ELSE "seq")])

Trees == {Tree(d, w, k) : d \in 0 .. MaxDepth, w \in 0 .. MaxWidth, k \in {"seq", "tuple"}}

\* The values a value holds, itself included: each is handed on as a
\* &dyn Serialize.
RECURSIVE Nodes(_)
RECURSIVE NodesOf(_)
NodesOf(items) == IF items = <<>> THEN 0 ELSE Nodes(Head(items)) + NodesOf(Tail(items))
Nodes(v) == 1 + NodesOf(v.items)

Activation(v, self, pc, i, parent, result, out) ==
    [v |-> v, self |-> self, pc |-> pc, i |-> i, parent |-> parent, result |-> result, out |-> out]

\* let mut serializer = InplaceSerializer::Serializer(serializer);
Enter(v, parent) == Activation(v, new("codec"), "enter", 0, parent, Ok("-"), Ok("-"))

\* The activation that runs: the last created of those that have not returned.
Top(stack) ==
    CHOOSE i \in DOMAIN stack :
        /\ stack[i].pc # "returned"
        /\ \A j \in DOMAIN stack : stack[j].pc # "returned" => j <= i

InitProduce ==
    /\ PInit
    /\ DIdle
    /\ XIdle
    /\ stage = "called"
    /\ via = "facade"
    /\ value \in Trees
    /\ ty = NoValue
    /\ text = ""
    /\ calls = <<>>
    /\ back = Ok("-")

\* A facade call of the running activation: the bridge after it, the Status,
\* and the call the codec received.
Facade(top, row, v, res, pc) ==
    /\ calls' = [calls EXCEPT ![top] =
                    [@ EXCEPT !.self = res.self,
                              !.result = IF res.ret = "Ok" THEN Ok("unit")
                                         ELSE Err(SerializeError_from(res.ret)),
                              !.pc = IF res.ret = "Ok" THEN pc ELSE "match"]]
    /\ codec' = IF res.invoked THEN Append(codec, codec_call(row, v)) ELSE codec
    /\ ser' = IF top = 1 THEN res.self ELSE ser
    /\ UNCHANGED <<reported, call, ret, ans, pre, proto, dvars, xvars, stage, via, value, ty,
                   text, back>>

\* serialize is called on the whole value.
ProduceCall ==
    /\ stage = "called"
    /\ stage' = "running"
    /\ calls' = <<Enter(value, 0)>>
    /\ UNCHANGED <<pvars, dvars, xvars, via, value, ty, text, back>>

\* The body of a scalar: its one call.
ProduceScalar ==
    /\ stage = "running"
    /\ LET top == Top(calls)
           row == Row("Serializer", "dyn_serialize_bool")
       IN  /\ calls[top].pc = "enter"
           /\ calls[top].v.k = "bool"
           /\ Facade(top, row, 1, dyn_serialize(calls[top].self, row, CodecOk(OkOf(row))), "match")

\* The body of a composite: the open call.
ProduceOpen ==
    /\ stage = "running"
    /\ LET top == Top(calls)
           row == Row("Serializer", "dyn_serialize_" \o calls[top].v.k)
       IN  /\ calls[top].pc = "enter"
           /\ calls[top].v.k # "bool"
           /\ Facade(top, row, Len(calls[top].v.items),
                     dyn_serialize(calls[top].self, row, CodecOk(OkOf(row))), "items")

\* The next element call reaches the codec, which serializes the element, a
\* &dyn Serialize: serialize is called on it with the codec's serializer.
ProduceElement ==
    /\ stage = "running"
    /\ LET top == Top(calls)
           at == calls[top]
       IN  /\ at.pc = "items"
           /\ at.i < Len(at.v.items)
           /\ calls' = Append([calls EXCEPT ![top] = [@ EXCEPT !.pc = "element"]],
                              Enter(at.v.items[at.i + 1], top))
           /\ codec' = Append(codec, codec_call(Row(at.self.tag, "dyn_serialize_element"), at.i + 1))
    /\ UNCHANGED <<ser, reported, call, ret, ans, pre, proto, dvars, xvars, stage, via, value,
                   ty, text, back>>

\* After the last element: the end call.
ProduceEnd ==
    /\ stage = "running"
    /\ LET top == Top(calls)
           at == calls[top]
           row == Row(at.self.tag, "dyn_end")
       IN  /\ at.pc = "items"
           /\ at.i = Len(at.v.items)
           /\ Facade(top, row, 0, dyn_end(at.self, row, CodecOk(OkOf(row))), "match")

\* The match that ends serialize, and its return: to the caller of the whole
\* value, or to the codec, whose serialize_element returns what the element
\* returned to the element call of the enclosing activation.
ProduceReturn ==
    /\ stage = "running"
    /\ LET top == Top(calls)
           at == calls[top]
           out == serialize_match(at.self, at.result)
           up == calls[at.parent]
           row == Row(up.self.tag, "dyn_serialize_element")
           res == dyn_serialize_element(up.self, row,
                                        IF out.ok THEN CodecOk(OkOf(row)) ELSE CodecErr(out.val))
       IN  /\ at.pc = "match"
           /\ IF at.parent = 0
              THEN /\ calls' = [calls EXCEPT ![top] = [@ EXCEPT !.pc = "returned", !.out = out]]
                   /\ stage' = "returned"
                   /\ back' = out
                   /\ ser' = ser
              ELSE /\ calls' = [calls EXCEPT
                        ![top] = [@ EXCEPT !.pc = "returned", !.out = out],
                        ![at.parent] =
                            [@ EXCEPT !.self = res.self,
                                      !.i = @ + 1,
                                      !.result = IF res.ret = "Ok" THEN Ok("unit")
                                                 ELSE Err(SerializeError_from(res.ret)),
                                      !.pc = IF res.ret = "Ok" THEN "items" ELSE "match"]]
                   /\ stage' = stage
                   /\ back' = back
                   /\ ser' = IF at.parent = 1 THEN res.self ELSE ser
    /\ UNCHANGED <<codec, reported, call, ret, ans, pre, proto, dvars, xvars, via, value, ty, text>>

NextProduce ==
    \/ ProduceCall
    \/ ProduceScalar
    \/ ProduceOpen
    \/ ProduceElement
    \/ ProduceEnd
    \/ ProduceReturn

\* One thread runs the calls: a step that can be taken is taken.
SpecProduce == InitProduce /\ [][NextProduce]_vars /\ WF_vars(NextProduce)

\* C31: producing a value against a codec that does not fail returns, and
\* returns Ok with the outermost InplaceSerializer in Ok. One bridge is
\* created for each value the whole value holds, itself included; a bridge
\* is in Ok at the return of its serialize, and the bridges of the elements
\* of a value have returned before the value's own serialize returns.
C31_Terminates ==
    /\ <>(stage = "returned")
    /\ []( /\ Len(calls) <= Nodes(value)
           /\ \A i \in DOMAIN calls :
                calls[i].pc = "returned" =>
                    /\ calls[i].self.tag = "Ok"
                    /\ calls[i].out = Ok("ok")
                    /\ \A j \in DOMAIN calls : calls[j].parent = i => calls[j].pc = "returned"
                    /\ Len(SelectSeq(calls, LAMBDA a : a.parent = i)) = Len(calls[i].v.items)
           /\ stage = "returned" =>
                /\ Len(calls) = Nodes(value)
                /\ \A i \in DOMAIN calls : calls[i].pc = "returned"
                /\ ser = InplaceSerializer("Ok", "ok")
                /\ back = Ok("ok") )

\* A sequence of three elements, the last a tuple of two, has returned: seven
\* bridges were created.
C31_Witness ==
    /\ stage = "returned"
    /\ value = Tree(2, 3, "seq")
    /\ Len(calls) = 7
    /\ calls[1].self = InplaceSerializer("Ok", "ok")
    /\ calls[7].parent = 5
    /\ calls[7].self = InplaceSerializer("Ok", "ok")
    /\ back = Ok("ok")

\* ================================================================= SpecOwn
\* SerializeError with std or alloc: one pointer-sized word, which is either
\* the address of a boxed String or an encoded SerializerError. `text` and
\* `back` hold what the last step reported or converted, if it did. usize is that
\* of a 16-bit target, the narrowest one, so that the shift of encode can be
\* followed to where it loses bits.
WordBits == 16
Word == 2 ^ WordBits

\* The power-of-two alignments a word can express, and those of at least 2
\* whose shift keeps every discriminant whole: 8 << trailing_zeros < 2^16.
Aligns == {2 ^ k : k \in 1 .. WordBits - 1}
SafeAligns == {2 ^ k : k \in 1 .. WordBits - 4}

\* align_of::<String>() on the 16-, 32- and 64-bit targets.
TargetAligns == {2, 4, 8}

\* `error as usize`: the discriminants of enum SerializerError, from 0.
Discriminants ==
    <<"Error", "Serializer", "SerializeSeq", "SerializeTuple", "SerializeTupleStruct",
      "SerializeTupleVariant", "SerializeMap", "SerializeStruct", "SerializeStructVariant">>
as_usize(error) == (CHOOSE i \in DOMAIN Discriminants : Discriminants[i] = error) - 1

\* usize::trailing_zeros of a power of two, <<, and |.
trailing_zeros(x) == CHOOSE k \in 0 .. WordBits - 1 : 2 ^ k = x
shl(x, k) == (x * 2 ^ k) % Word
RECURSIVE BitOr(_, _)
BitOr(x, y) ==
    IF x = 0 THEN y
    ELSE IF y = 0 THEN x
    ELSE (IF x % 2 = 1 \/ y % 2 = 1 THEN 1 ELSE 0) + 2 * BitOr(x \div 2, y \div 2)

\* encode without the low bits: the shifted discriminant alone.
encode_shift_only(error, ALIGN) == shl(as_usize(error), trailing_zeros(ALIGN))

\* SerializeError::encode:
\*   NonZeroUsize::new(((error as usize) << ALIGN.trailing_zeros()) | ALIGN.strict_sub(1)).unwrap()
\* The word 0 stands for the unwrap that fails.
encode(error, ALIGN) == BitOr(shl(as_usize(error), trailing_zeros(ALIGN)), ALIGN - 1)

\* decode finding no status in any word.
decode_none(word, ALIGN) == None

\* SerializeError::decode: the match on the nine encoded constants, the first
\* arm that matches, else None.
decode(word, ALIGN) ==
    LET arms == {i \in DOMAIN Discriminants : encode(Discriminants[i], ALIGN) = word}
    IN  IF arms = {} THEN None
        ELSE Some(Discriminants[CHOOSE i \in arms : \A j \in arms : i <= j])

\* The heap as the log of its events tells it: an address is live when its
\* last event is an allocation, and then holds the message allocated there.
Built(log) == SelectSeq(log, LAMBDA ev : ev.op \in {"alloc", "from"})
LastAt(log, at) ==
    LET ks == {k \in DOMAIN log : log[k].op \in {"alloc", "free"} /\ log[k].at = at}
    IN  IF ks = {} THEN [op |-> "none", at |-> at, msg |-> ""]
        ELSE log[CHOOSE k \in ks : \A j \in ks : j <= k]
Live(log, at) == LastAt(log, at).op = "alloc"

\* What a read through the pointer finds: the String, or anything at all
\* where no String lives.
Deref(log, at) == IF Live(log, at) THEN {LastAt(log, at).msg} ELSE {"m1", "dangling"}

\* SerializeError::as_string
as_string(word, ALIGN, found) ==
    LET error == decode(word, ALIGN)
    IN  IF error.some THEN Err(error.val) ELSE Ok(found)

\* SerializeError::into_string: self goes into ManuallyDrop, so no drop runs
\* on it; Box::from_raw(ptr) releases the box and moves the String out.
into_string(word, ALIGN, found) ==
    LET error == decode(word, ALIGN)
    IN  IF error.some THEN [ret |-> Err(error.val), released |-> <<>>]
        ELSE [ret |-> Ok(found), released |-> <<[op |-> "free", at |-> word, msg |-> ""]>>]

\* SerializeError::into_ser_error: E::custom of the status or of the String,
\* the text the codec's error is made of.
SerializeError_into_ser_error(word, ALIGN, found) ==
    LET string == into_string(word, ALIGN, found)
    IN  [out |-> IF string.ret.ok THEN string.ret.val ELSE SerializerError_Display(string.ret.val),
         released |-> string.released]

\* drop forgetting the word: nothing is released.
SerializeError_drop_forget(word, ALIGN, found) == <<>>

\* impl Drop for SerializeError:
\*   let _ = mem::replace(self, REPLACEMENT).into_string();
\* the String, if there is one, is dropped with the result.
SerializeError_drop(word, ALIGN, found) == into_string(word, ALIGN, found).released

MaxBuilds == 2
MaxAddrs == 2
MaxAligned == 10

\* The addresses the allocator may return for a Box<String>.
Addresses(ALIGN) == {ALIGN * k : k \in 1 .. MaxAddrs} \cap (1 .. Word - 1)

\* A SerializeError object: its word, and how it was built.
Owned(word, by, of) == [word |-> word, by |-> by, of |-> of]

\* Nothing reported by the last step.
Unread == [of |-> Owned(0, "-", "-"), ret |-> Ok("-")]
Without(errors, i) == [k \in 1 .. Len(errors) - 1 |-> IF k < i THEN errors[k] ELSE errors[k + 1]]

InitOwn ==
    /\ PInit
    /\ DIdle
    /\ XIdle
    /\ stage = "errors"
    /\ via = "-"
    /\ value = <<>>
    /\ ty \in {[align |-> a] : a \in TargetAligns}
    /\ text = Unread
    /\ calls = <<>>
    /\ back = Ok("-")

\* <SerializeError as serde::ser::Error>::custom(msg)
Custom ==
    /\ stage = "errors"
    /\ Len(Built(calls)) < MaxBuilds
    /\ \E msg \in {"m1", "m2"} : \E at \in {a \in Addresses(ty.align) : ~Live(calls, a)} :
         /\ value' = Append(value, Owned(at, "custom", msg))
         /\ calls' = Append(calls, [op |-> "alloc", at |-> at, msg |-> msg])
    /\ text' = Unread
    /\ back' = Ok("-")
    /\ UNCHANGED <<pvars, dvars, xvars, stage, via, ty>>

\* SerializeError::from(status)
From ==
    /\ stage = "errors"
    /\ Len(Built(calls)) < MaxBuilds
    /\ \E error \in SerializerError :
         /\ value' = Append(value, Owned(encode(error, ty.align), "from", error))
         /\ calls' = Append(calls, [op |-> "from", at |-> encode(error, ty.align), msg |-> ""])
    /\ text' = Unread
    /\ back' = Ok("-")
    /\ UNCHANGED <<pvars, dvars, xvars, stage, via, ty>>

\* Display or Debug of a SerializeError, through as_string.
AsString ==
    /\ stage = "errors"
    /\ \E i \in DOMAIN value : \E found \in Deref(calls, value[i].word) :
         text' = [of |-> value[i], ret |-> as_string(value[i].word, ty.align, found)]
    /\ back' = Ok("-")
    /\ UNCHANGED <<pvars, dvars, xvars, stage, via, value, ty, calls>>

\* into_ser_error consumes a SerializeError.
IntoSerError ==
    /\ stage = "errors"
    /\ \E i \in DOMAIN value : \E found \in Deref(calls, value[i].word) :
         LET e == SerializeError_into_ser_error(value[i].word, ty.align, found)
         IN  /\ back' = [of |-> value[i], out |-> e.out]
             /\ calls' = calls \o e.released
             /\ value' = Without(value, i)
    /\ text' = Unread
    /\ UNCHANGED <<pvars, dvars, xvars, stage, via, ty>>

\* A SerializeError goes out of scope.
DropError ==
    /\ stage = "errors"
    /\ \E i \in DOMAIN value : \E found \in Deref(calls, value[i].word) :
         /\ calls' = calls \o SerializeError_drop(value[i].word, ty.align, found)
         /\ value' = Without(value, i)
    /\ text' = Unread
    /\ back' = Ok("-")
    /\ UNCHANGED <<pvars, dvars, xvars, stage, via, ty>>

NextOwn == Custom \/ From \/ AsString \/ IntoSerError \/ DropError

SpecOwn == InitOwn /\ [][NextOwn]_vars

\* The addresses that hold a String.
LiveNow == {at \in Addresses(ty.align) : Live(calls, at)}
Ops(op) == SelectSeq(calls, LAMBDA ev : ev.op = op)

\* C32: over every sequence of custom, from, Display, into_ser_error and drop,
\* a release is the release of a String that is live, so none is released
\* twice; the Strings that are live are those of the SerializeErrors built by
\* custom that are still owned, one each, so a message is released exactly
\* when its error is converted or dropped and none is left when no error is;
\* an error built from a Status releases nothing.
C32_ReleasedOnce ==
    /\ \A k \in DOMAIN calls :
         calls[k].op = "free" => Live(SubSeq(calls, 1, k - 1), calls[k].at)
    /\ LiveNow = {value[i].word : i \in {j \in DOMAIN value : value[j].by = "custom"}}
    /\ \A i, j \in DOMAIN value : (value[i].word = value[j].word /\ value[i].by = "custom") => i = j
    /\ Len(Ops("free")) + Cardinality(LiveNow) = Len(Ops("alloc"))
    /\ \A k \in DOMAIN calls : calls[k].op = "free" => calls[k].at \in Addresses(ty.align)

\* A message was boxed and released, its address was given to a second
\* message, and the second error was dropped: two allocations, two releases,
\* nothing left.
C32_Witness ==
    /\ ty.align = 8
    /\ calls = <<[op |-> "alloc", at |-> 8, msg |-> "m1"], [op |-> "free", at |-> 8, msg |-> ""],
                 [op |-> "alloc", at |-> 8, msg |-> "m2"], [op |-> "free", at |-> 8, msg |-> ""]>>
    /\ back = Ok("-")
    /\ value = <<>>

\* ============================================================== SpecEncode
\* encode and decode on their own, for every alignment a word can express:
\* one SerializeError is built, from a Status or by custom at one of the
\* first aligned addresses, and reported through as_string.
Aligned(ALIGN) == {ALIGN * k : k \in 1 .. MaxAligned} \cap (1 .. Word - 1)

InitEncode ==
    /\ PInit
    /\ DIdle
    /\ XIdle
    /\ stage = "encode"
    /\ via = "-"
    /\ value = <<>>
    /\ ty \in {[align |-> a] : a \in Aligns}
    /\ text = Unread
    /\ calls = <<>>
    /\ back = Ok("-")

\* SerializeError::from(status)
EncodeStatus ==
    /\ stage = "encode"
    /\ value = <<>>
    /\ \E error \in SerializerError :
         value' = <<Owned(encode(error, ty.align), "from", error)>>
    /\ UNCHANGED <<pvars, dvars, xvars, stage, via, ty, text, calls, back>>

\* SerializeError::custom(msg), the box at an aligned address.
BoxMessage ==
    /\ stage = "encode"
    /\ value = <<>>
    /\ \E msg \in {"m1"} : \E at \in Aligned(ty.align) :
         /\ value' = <<Owned(at, "custom", msg)>>
         /\ calls' = <<[op |-> "alloc", at |-> at, msg |-> msg]>>
    /\ UNCHANGED <<pvars, dvars, xvars, stage, via, ty, text, back>>

\* Display of the error, through as_string and decode.
Report ==
    /\ stage = "encode"
    /\ value # <<>>
    /\ text = Unread
    /\ \E found \in Deref(calls, value[1].word) :
         text' = [of |-> value[1], ret |-> as_string(value[1].word, ty.align, found)]
    /\ UNCHANGED <<pvars, dvars, xvars, stage, via, value, ty, calls, back>>

NextEncode == EncodeStatus \/ BoxMessage \/ Report

SpecEncode == InitEncode /\ [][NextEncode]_vars

\* What the claim says of one alignment, and of the error reported.
Encodes(ALIGN) ==
    /\ \A error \in SerializerError :
         /\ encode(error, ALIGN) # 0
         /\ encode(error, ALIGN) % ALIGN = ALIGN - 1
         /\ \A other \in SerializerError \ {error} : encode(other, ALIGN) # encode(error, ALIGN)
         /\ decode(encode(error, ALIGN), ALIGN) = Some(error)
    /\ \A at \in Aligned(ALIGN) : decode(at, ALIGN) = None
Reports ==
    text # Unread =>
        /\ text.of.by = "from" => (~text.ret.ok /\ text.ret.val = text.of.of)
        /\ text.of.by = "custom" => (text.ret.ok /\ text.ret.val = text.of.of)

serde_de_Unexpected(tag, v) == [tag |-> tag, v |-> v]
Unexpected(tag, v) == [owned |-> tag, v |-> v]
UnexpectedValues ==
    { serde_de_Unexpected("Bool", "true"), serde_de_Unexpected("Unsigned", "7"),
      serde_de_Unexpected("Signed", "-7"), serde_de_Unexpected("Float", "1.5"),
      serde_de_Unexpected("Char", "c"), serde_de_Unexpected("Str", "s"),
      serde_de_Unexpected("Bytes", "ab"), serde_de_Unexpected("Other", "thing") }
UnexpectedUnits ==
    {"Unit", "Option", "NewtypeStruct", "Seq", "Map", "Enum", "UnitVariant",
     "NewtypeVariant", "TupleVariant", "StructVariant"}
Unexpecteds == UnexpectedValues \cup {serde_de_Unexpected(tag, "") : tag \in UnexpectedUnits}

\* impl From<serde::de::Unexpected<'_>> for Unexpected
\*   Bool(v) => Bool(v), .., Str(v) => Str(String::from(v)),
\*   Bytes(v) => Bytes(Vec::from(v)), Unit => Unit, .., Other(v) => Other(String::from(v))
Unexpected_from(value_) ==
    CASE value_.tag \in {"Bool", "Unsigned", "Signed", "Float", "Char"} -> Unexpected(value_.tag, value_.v)
      [] value_.tag \in {"Str", "Bytes", "Other"} -> Unexpected(value_.tag, value_.v)
      [] value_.tag \in UnexpectedUnits -> Unexpected(value_.tag, "")

\* Unexpected::borrow
Unexpected_borrow(self) ==
    CASE self.owned \in {"Bool", "Unsigned", "Signed", "Float", "Char"} -> serde_de_Unexpected(self.owned, self.v)
      [] self.owned \in {"Str", "Bytes", "Other"} -> serde_de_Unexpected(self.owned, self.v)
      [] self.owned \in UnexpectedUnits -> serde_de_Unexpected(self.owned, "")

\* impl fmt::Display for Unexpected. {v:?} of a string without a character
\* that Debug escapes is the string between double quotes.
Unexpected_Display(self) ==
    CASE self.owned = "Bool" -> "boolean '" \o self.v \o "'"
      [] self.owned = "Unsigned" -> "integer '" \o self.v \o "'"
      [] self.owned = "Signed" -> "integer '" \o self.v \o "'"
      [] self.owned = "Float" -> "floating point '" \o self.v \o "'"
      [] self.owned = "Char" -> "character '" \o self.v \o "'"
      [] self.owned = "Str" -> "string \"" \o self.v \o "\""
      [] self.owned = "Bytes" -> "byte array"
      [] self.owned = "Unit" -> "unit value"
      [] self.owned = "Option" -> "optional value"
      [] self.owned = "NewtypeStruct" -> "newtype struct"
      [] self.owned = "Seq" -> "sequence"
      [] self.owned = "Map" -> "map"
      [] self.owned = "Enum" -> "enum"
      [] self.owned = "UnitVariant" -> "unit variant"
      [] self.owned = "NewtypeVariant" -> "newtype variant"
      [] self.owned = "TupleVariant" -> "tuple variant"
      [] self.owned = "StructVariant" -> "struct variant"
      [] self.owned = "Other" -> self.v

\* &dyn serde::de::Expected: an object whose fmt writes a text. A visitor
\* writes its expecting(); a &str writes itself.
Expected(by, writes) == [by |-> by, writes |-> writes]
Expecteds == {Expected("Visitor", "a string"), Expected("Visitor", "2 elements")}
Lengths == 0 .. 2

\* The categories of ErrorKind that hold a status, an Unexpected or a length.
\*   impl From<SerializerError> for Error, impl From<DeserializerError> for Error
\*   invalid_type, invalid_value: (Unexpected::from(unexp), exp.to_string())
\*   invalid_length: (len, exp.to_string())
Error_from_SerializerError(error) == [kind |-> "SerializerError", error |-> error]
Error_from_DeserializerError(error) == [kind |-> "DeserializerError", error |-> error]
Error_invalid_type(unexp, exp) ==
    [kind |-> "InvalidType", unexp |-> Unexpected_from(unexp), exp |-> exp.writes]
Error_invalid_value(unexp, exp) ==
    [kind |-> "InvalidValue", unexp |-> Unexpected_from(unexp), exp |-> exp.writes]
Error_invalid_length(len, exp) ==
    [kind |-> "InvalidLength", len |-> len, exp |-> exp.writes]

\* impl fmt::Display for Error: self.0.fmt(f), every arm of ErrorKind's fmt.
Error_Display(self) ==
    CASE self.kind = "SerializerError" -> SerializerError_Display(self.error)
      [] self.kind = "DeserializerError" -> Display(self.error)
      [] self.kind = "InvalidType" ->
           "invalid type: " \o Unexpected_Display(self.unexp) \o ", expected " \o self.exp
      [] self.kind = "InvalidValue" ->
           "invalid value: " \o Unexpected_Display(self.unexp) \o ", expected " \o self.exp
      [] self.kind = "InvalidLength" ->
           "invalid length: " \o Decimal(self.len) \o ", expected " \o self.exp
      [] OTHER -> ErrorKind_Display(self)

\* A call of one constructor of the target error type E, with its arguments;
\* a Display argument of custom is the text it writes.
Constructor(ctor, args) == [ctor |-> ctor, args |-> args]
NoConstructor == Constructor("-", <<>>)

\* Error::into_ser_error::<E>
\*   SerializerError(error) => E::custom(error), DeserializerError(error) =>
\*   E::custom(error), Other(error) => E::custom(error), error => E::custom(error)
Error_into_ser_error(self) ==
    CASE self.kind = "SerializerError" -> Constructor("custom", <<SerializerError_Display(self.error)>>)
      [] self.kind = "DeserializerError" -> Constructor("custom", <<Display(self.error)>>)
      [] self.kind = "Other" -> Constructor("custom", <<self.msg>>)
      [] OTHER -> Constructor("custom", <<Error_Display(self)>>)

\* Error::into_de_error::<E>, the constructor of E each arm calls.
Error_into_de_error_custom(self) == Constructor("custom", <<Error_Display(self)>>)
Error_into_de_error_call(self) ==
    CASE self.kind = "SerializerError" -> Constructor("custom", <<SerializerError_Display(self.error)>>)
      [] self.kind = "DeserializerError" -> Constructor("custom", <<Display(self.error)>>)
      [] self.kind = "InvalidType" ->
           Constructor("invalid_type", <<Unexpected_borrow(self.unexp), Expected("str", self.exp)>>)
      [] self.kind = "InvalidValue" ->
           Constructor("invalid_value", <<Unexpected_borrow(self.unexp), Expected("str", self.exp)>>)
      [] self.kind = "InvalidLength" ->
           Constructor("invalid_length", <<self.len, Expected("str", self.exp)>>)
      [] self.kind = "UnknownVariant" -> Constructor("unknown_variant", <<self.name, self.names>>)
      [] self.kind = "UnknownField" -> Constructor("unknown_field", <<self.name, self.names>>)
      [] self.kind = "MissingField" -> Constructor("missing_field", <<self.name>>)
      [] self.kind = "DuplicateField" -> Constructor("duplicate_field", <<self.name>>)
      [] self.kind = "Other" -> Constructor("custom", <<self.msg>>)

\* What the dynamic path can raise: a constructor of serde::de::Error or of
\* serde::ser::Error on Error, or From of a status, with its arguments.
Raised ==
    {Constructor("custom", <<msg>>) : msg \in Messages}
    \cup {Constructor(c, <<unexp, exp>>) :
            c \in {"invalid_type", "invalid_value"}, unexp \in Unexpecteds, exp \in Expecteds}
    \cup {Constructor("invalid_length", <<len, exp>>) : len \in Lengths, exp \in Expecteds}
    \cup {Constructor(c, <<name, expected>>) :
            c \in {"unknown_variant", "unknown_field"}, name \in FieldNames, expected \in ExpectedLists}
    \cup {Constructor(c, <<name>>) : c \in {"missing_field", "duplicate_field"}, name \in FieldNames}
    \cup {Constructor("from_SerializerError", <<error>>) : error \in SerializerError}
    \cup {Constructor("from_DeserializerError", <<error>>) : error \in DeserializerError}

\* The Error a raised constructor makes.
Error_of(ctor, args) ==
    CASE ctor = "custom" -> Error_custom(args[1])
      [] ctor = "invalid_type" -> Error_invalid_type(args[1], args[2])
      [] ctor = "invalid_value" -> Error_invalid_value(args[1], args[2])
      [] ctor = "invalid_length" -> Error_invalid_length(args[1], args[2])
      [] ctor = "unknown_variant" -> Error_unknown_variant(args[1], args[2])
      [] ctor = "unknown_field" -> Error_unknown_field(args[1], args[2])
      [] ctor = "missing_field" -> Error_missing_field(args[1])
      [] ctor = "duplicate_field" -> Error_duplicate_field(args[1])
      [] ctor = "from_SerializerError" -> Error_from_SerializerError(args[1])
      [] ctor = "from_DeserializerError" -> Error_from_DeserializerError(args[1])

InitConvert ==
    /\ PInit
    /\ DIdle
    /\ XIdle
    /\ stage = "raise"
    /\ \E raised \in Raised : via = raised.ctor /\ value = raised.args
    /\ ty = NoKind
    /\ text = ""
    /\ calls = <<>>
    /\ back = NoConstructor

\* Err(Error::custom(..)), Err(Error::invalid_type(..)), .., Error::from(status)
Raise ==
    /\ stage = "raise"
    /\ stage' = "Error"
    /\ ty' = Error_of(via, value)
    /\ UNCHANGED <<pvars, dvars, xvars, via, value, text, calls, back>>

\* error.to_string()
ShowError ==
    /\ stage # "raise"
    /\ text = ""
    /\ text' = Error_Display(ty)
    /\ UNCHANGED <<pvars, dvars, xvars, stage, via, value, ty, calls, back>>

\* error.into_de_error::<E>()
ConvertDe ==
    /\ stage = "Error"
    /\ stage' = "into_de_error"
    /\ back' = Error_into_de_error_call(ty)
    /\ UNCHANGED <<pvars, dvars, xvars, via, value, ty, text, calls>>

\* error.into_ser_error::<E>()
ConvertSer ==
    /\ stage = "Error"
    /\ stage' = "into_ser_error"
    /\ back' = Error_into_ser_error(ty)
    /\ UNCHANGED <<pvars, dvars, xvars, via, value, ty, text, calls>>

NextConvert == Raise \/ ShowError \/ ConvertDe \/ ConvertSer

SpecConvert == InitConvert /\ [][NextConvert]_vars

\* C33: into_de_error calls, for each of the seven structured categories, the
\* constructor of the target error type of that category, with the payload the
\* category was raised with (the unexpected value, the expectation's text,
\* the length, the name, the list of names); into_ser_error calls the
\* target's custom with the Display text of the error, whatever the category.
C33_Conversions ==
    /\ stage = "into_de_error" =>
         /\ via \in {"invalid_type", "invalid_value"} =>
              /\ back.ctor = via
              /\ Len(back.args) = 2
              /\ back.args[1] = value[1]
              /\ back.args[2].writes = value[2].writes
         /\ via = "invalid_length" =>
              /\ back.ctor = via
              /\ Len(back.args) = 2
              /\ back.args[1] = value[1]
              /\ back.args[2].writes = value[2].writes
         /\ via \in {"unknown_variant", "unknown_field", "missing_field", "duplicate_field"} =>
              /\ back.ctor = via
              /\ back.args = value
    /\ stage = "into_ser_error" =>
         /\ back.ctor = "custom"
         /\ back.args = <<Error_Display(ty)>>
         /\ text # "" => back.args = <<text>>
         /\ (via = "invalid_length" /\ value[1] = 2 /\ value[2].writes = "2 elements") =>
              back.args = <<"invalid length: 2, expected 2 elements">>
         /\ (via = "missing_field" /\ value = <<"id">>) =>
              back.args = <<"missing field 'id'">>

\* An invalid-type error of an unexpected string was converted for a
\* deserializer's error type.
C33_Witness ==
    /\ stage = "into_de_error"
    /\ via = "invalid_type"
    /\ ty.kind = "InvalidType"
    /\ text = "invalid type: string \"s\", expected a string"
    /\ back.ctor = "invalid_type"
    /\ back.args[1] = serde_de_Unexpected("Str", "s")
    /\ back.args[2] = Expected("str", "a string")

\* The names after the first, up to the n-th, each preceded by a comma.
RECURSIVE Listed(_, _)
Listed(names, n) ==
    IF n < 2 THEN "" ELSE Listed(names, n - 1) \o ", '" \o names[n] \o "'"

\* C34: the Display text of an unknown-field or unknown-variant error lists
\* the allowed names by their count: none, "there are no fields" (or
\* variants); one, 'x'; two, 'x' or 'y'; three or more, one of 'x' and then
\* every remaining name after a comma, in the order given.
C34_ListedByCount ==
    (text # "" /\ via \in {"unknown_field", "unknown_variant"}) =>
        LET names == value[2]
            n == Len(names)
            what == IF via = "unknown_field" THEN "field" ELSE "variant"
            start == "unknown " \o what \o " '" \o value[1] \o "', "
        IN /\ n = 0 => text = start \o "there are no " \o what \o "s"
           /\ n = 1 => text = start \o "expected '" \o names[1] \o "'"
           /\ n = 2 => text = start \o "expected '" \o names[1] \o "' or '" \o names[2] \o "'"
           /\ n >= 3 => text = start \o "expected one of '" \o names[1] \o "'" \o Listed(names, n)
           /\ (via = "unknown_variant" /\ value = <<"id", <<"W", "Y", "W">>>>) =>
                text = "unknown variant 'id', expected one of 'W', 'Y', 'W'"

\* An unknown-variant error with three allowed names was rendered.
C34_Witness ==
    /\ stage = "Error"
    /\ via = "unknown_variant"
    /\ ty.kind = "UnknownVariant"
    /\ ty.names = <<"Z", "Y", "W">>
    /\ text = "unknown variant 'X', expected one of 'Z', 'Y', 'W'"
====
